---------------------------- MODULE Spec2Model ----------------------------
(***************************************************************************)
(* A model of the ingestion and hybrid-retrieval core of context4all:     *)
(*   - the hybrid merge and the rerank step of the two search tools        *)
(*     (search_code_examples, perform_rag_query),                          *)
(*   - the markdown chunker smartChunkMarkdown,                            *)
(*   - the delete-then-insert replacement of crawled_pages rows done by    *)
(*     crawl_single_page through addDocumentsToSupabase,                   *)
(*   - the two ingestion tools from the crawl's result to their answer:    *)
(*     source upserts, chunk rows, code-example rows,                      *)
(*   - the crawler: crawl, crawlBatch, crawlRecursiveInternalLinks,        *)
(*   - createEmbeddingsBatch and the batch loops of addDocumentsToSupabase  *)
(*     and addCodeExamplesToSupabase with their retries and fallbacks,     *)
(*   - smart_crawl_url from the classification of its url to its answer,   *)
(*   - the filters perform_rag_query gives its two searches and its merge, *)
(*   - the validation of the embeddings of a code-example batch and the    *)
(*     contextual step of a document batch,                                *)
(*   - crawl_single_page from its crawl to its first store request.        *)
(* Similarities are fixed-point numbers in thousandths (1000 is 1.0).      *)
(***************************************************************************)
EXTENDS Integers, Sequences, FiniteSets, Bags, TLC

VARIABLES
    \* ---- search tool (one call of the tool's handler) ----
    pc,               \* "idle" | "start" | "searched" | "done"
    match_count,      \* the tool's match_count argument
    useHybridSearch,  \* env.USE_HYBRID_SEARCH === "true"
    useReranking,     \* env.USE_RERANKING === "true" && env.COHERE_API_KEY
    vectorRanking,    \* rows the similarity RPC ranks for the query, best first
    keywordMatches,   \* rows the ILIKE query matches, in the store's order
    keywordError,     \* the keyword query fails: its data is null
    results,          \* the handler's `results`
    merged,           \* history: `results` as it was before the rerank step
    rerankOutcome,    \* history: "none" | "ok" | "failed"
    rerankingApplied, \* the handler's `rerankingApplied`
    \* ---- chunker ----
    markdown,         \* the text given to smartChunkMarkdown
    maxChunkSize,     \* its maxChunkSize argument
    chunks,           \* the returned chunks
    envelope,         \* what crawl_single_page answers for this content
    chunkPc,          \* "idle" | "input" | "chunked"
    \* ---- store and ingestion calls ----
    crawled_pages,    \* the crawled_pages table: a bag of rows
    calls,            \* per caller: the ingestion call it is running
    started,          \* ingestion calls started so far
    \* ---- the ingestion tools (smart_crawl_url, crawl_single_page) ----
    sources,          \* the sources table: a bag of rows
    code_examples,    \* the code_examples table: a bag of rows
    ingest,           \* per caller: the tool call it is running
    codeCalls,        \* per caller: its call of addCodeExamplesToSupabase
    \* ---- the crawler (WebCrawler) ----
    crawlPc,          \* where the crawler's top-level call is
    req,              \* the top-level call: its arguments, and in the end its output
    rec,              \* the locals of crawlRecursiveInternalLinks
    bat,              \* the locals of crawlBatch
    hist,             \* history: the fetches issued, the outcome of each position
    lastCrawl,        \* history: the last render response and what crawl made of it
    \* ---- createEmbeddingsBatch ----
    emb,              \* one call: its arguments, locals, requests sent, result
    \* ---- smart_crawl_url from its url argument to its answer ----
    smart,            \* the call: target, crawl type, crawl results, answer
    \* ---- perform_rag_query over the rows of several owners ----
    rag,              \* the rows of crawled_pages, the call's source and owner
    \* ---- the contextual step of one batch of addDocumentsToSupabase ----
    ctx               \* the batch: its chunks, the situate calls, its batchData

searchVars == <<pc, match_count, useHybridSearch, useReranking, vectorRanking,
                keywordMatches, keywordError, results, merged, rerankOutcome, rerankingApplied>>
chunkVars == <<markdown, maxChunkSize, chunks, envelope, chunkPc>>
storeVars == <<crawled_pages, calls, started>>
ingestVars == <<sources, code_examples, ingest, codeCalls>>
crawlVars == <<crawlPc, req, rec, bat, hist, lastCrawl>>
embedVars == <<emb>>
smartVars == <<smart>>
ragVars == <<rag>>
ctxVars == <<ctx>>
vars == <<searchVars, chunkVars, storeVars, ingestVars, crawlVars, embedVars, smartVars,
          ragVars, ctxVars>>
\* what the actions of one part leave alone
nonSearchVars == <<chunkVars, storeVars, ingestVars, crawlVars, embedVars, smartVars,
    ragVars, ctxVars>>
nonChunkVars == <<searchVars, storeVars, ingestVars, crawlVars, embedVars, smartVars,
    ragVars, ctxVars>>
nonStoreVars == <<searchVars, chunkVars, ingestVars, crawlVars, embedVars, smartVars,
    ragVars, ctxVars>>
nonIngestVars == <<searchVars, chunkVars, crawlVars, embedVars, smartVars,
    ragVars, ctxVars>>
nonCrawlVars == <<searchVars, chunkVars, storeVars, ingestVars, embedVars, smartVars,
    ragVars, ctxVars>>
nonEmbedVars == <<searchVars, chunkVars, storeVars, ingestVars, crawlVars, smartVars,
    ragVars, ctxVars>>
\* what the steps of smart_crawl_url outside the crawler and the store leave alone
nonSmartVars == <<searchVars, chunkVars, embedVars, ragVars, ctxVars>>
nonCtxVars == <<searchVars, chunkVars, storeVars, ingestVars, crawlVars, embedVars, smartVars,
               ragVars>>

\* situate: history, per position what generateContextualEmbedding answered
IdleCtx ==
    [pc |-> "idle", batchContents |-> <<>>, useContextualEmbeddings |-> FALSE,
     client |-> FALSE, pending |-> {}, results |-> <<>>, situate |-> <<>>,
     batchMetadatas |-> <<>>, contextualContents |-> <<>>, batchData |-> <<>>]

CtxIdle == ctx = IdleCtx

\* given: history, the source and owner filters each of the two searches got
IdleRag ==
    [table |-> {}, source |-> "", userId |-> "",
     given |-> [vector |-> <<>>, keyword |-> <<>>], combined |-> FALSE, results |-> <<>>]

RagIdle == rag = IdleRag

\* smart_crawl_url before its call: no target, no answer
NoAnswer == [success |-> FALSE, crawl_type |-> "", pages_crawled |-> 0, error |-> ""]

\* history: failed, the URLs of the call no fetch of which gave a result;
\* dropped, the number of fetches that gave no result
IdleSmart ==
    [pc |-> "idle", url |-> <<>>, crawlType |-> "", locs |-> <<>>,
     crawlResults |-> <<>>, failed |-> {}, dropped |-> 0, answer |-> NoAnswer]

SmartIdle == smart = IdleSmart

Min2(a, b) == IF a <= b THEN a ELSE b

Take(s, n) == SubSeq(s, 1, Min2(n, Len(s)))

(***************************************************************************)
(* Bounds of the model.                                                    *)
(***************************************************************************)
\* ids of rows in the search-tool specification
MaxId == 3
\* largest match_count and keyword list in the search-tool specification
MaxMatch == 3
MaxKw == 2
\* entries in one rerank response
MaxResp == 2
\* the same three bounds for the merge-only specification
MergeMaxId == 5
MergeMaxMatch == 5
MergeMaxKw == 3
\* longest markdown text and largest maxChunkSize given to the chunker
MaxLen == 6
MaxChunkSize == 4
\* the documented scenario (2,500 characters, chunk_size 1000) at 1/250 scale
ScenLen == 10
ScenChunkSize == 4

(***************************************************************************)
(* Program constants of the merge.                                         *)
(***************************************************************************)
\* 1.0 in thousandths
SimOne == 1000
\* the boost 1.2 as BoostNum / BoostDen
BoostNum == 12
BoostDen == 10
\* similarity 0.5 given to keyword-only hits
KeywordSim == 500

(***************************************************************************)
(* Rows.  A vector hit carries id and similarity; a keyword hit carries    *)
(* only its id (no similarity column is selected).  rerank_score is <<>>   *)
(* while undefined and <<v>> once set.                                     *)
(***************************************************************************)
SimOf(id) ==
    CASE id = 1 -> 1000
      [] id = 2 -> 900
      [] id = 3 -> 800
      [] id = 4 -> 500
      [] OTHER -> 0

VectorRow(id) == [id |-> id, similarity |-> SimOf(id), rerank_score |-> <<>>]

KeywordRow(id) == [id |-> id]

RECURSIVE SortedSeqOf(_)
\* the ids of a set in increasing order (SimOf is non-increasing in the id)
SortedSeqOf(S) ==
    IF S = {} THEN <<>>
    ELSE LET m == CHOOSE x \in S : \A y \in S : x <= y
         IN <<m>> \o SortedSeqOf(S \ {m})

Rankings(ids) ==
    { [i \in 1..Cardinality(S) |-> VectorRow(SortedSeqOf(S)[i])] : S \in SUBSET ids }

DupFreeSeqs(ids, maxLen) ==
    UNION { { s \in [1..n -> ids] : \A i, j \in 1..n : i # j => s[i] # s[j] }
            : n \in 0..maxLen }

KeywordLists(ids, maxLen) ==
    { [i \in 1..Len(s) |-> KeywordRow(s[i])] : s \in DupFreeSeqs(ids, maxLen) }

IdsOf(s) == { s[i].id : i \in 1..Len(s) }

(***************************************************************************)
(* The hybrid merge.                                                       *)
(***************************************************************************)
\* `if (vr.id)`: ids are database keys, 0 / null / undefined are falsy
Truthy(id) == id # 0

\* variant: the boost applied a second time
BoostedTwice(s) == Min2(SimOne, (Min2(SimOne, (s * BoostNum) \div BoostDen) * BoostNum) \div BoostDen)

\* Math.min(1.0, (vr.similarity || 0) * 1.2)
Boost(s) == Min2(SimOne, (s * BoostNum) \div BoostDen)

\* new Set(vectorResults.map(r => r.id).filter(id => id))
VectorIds(vec) == { vec[i].id : i \in { j \in 1..Len(vec) : Truthy(vec[j].id) } }

\* the inner loop: the first vector result with this id
FirstWithId(vec, id) ==
    vec[CHOOSE i \in 1..Len(vec) :
            /\ vec[i].id = id
            /\ \A j \in 1..(i - 1) : vec[j].id # id]

RECURSIVE AddBoth(_, _, _)
\* first loop: keyword hits that are vector hits too, boosted, in keyword order
AddBoth(kw, vec, acc) ==
    IF kw = <<>> THEN acc
    ELSE LET kr == Head(kw) IN
         IF kr.id \in VectorIds(vec) /\ kr.id \notin acc.seenIds
         THEN LET vr == FirstWithId(vec, kr.id) IN
              AddBoth(Tail(kw), vec,
                      [combinedResults |->
                           Append(acc.combinedResults,
                                  [vr EXCEPT !.similarity = Boost(vr.similarity)]),
                       seenIds |-> acc.seenIds \cup {kr.id}])
         ELSE AddBoth(Tail(kw), vec, acc)

\* variant: the second loop without its seenIds test
RECURSIVE AddVectorNoDedup(_, _, _)
AddVectorNoDedup(vec, n, acc) ==
    IF vec = <<>> THEN acc
    ELSE LET vr == Head(vec) IN
         IF Truthy(vr.id) /\ Len(acc.combinedResults) < n
         THEN AddVectorNoDedup(Tail(vec), n,
                        [combinedResults |-> Append(acc.combinedResults, vr),
                         seenIds |-> acc.seenIds \cup {vr.id}])
         ELSE AddVectorNoDedup(Tail(vec), n, acc)

RECURSIVE AddVector(_, _, _)
\* second loop: the remaining vector hits, in vector order, while short
AddVector(vec, n, acc) ==
    IF vec = <<>> THEN acc
    ELSE LET vr == Head(vec) IN
         IF Truthy(vr.id) /\ vr.id \notin acc.seenIds /\ Len(acc.combinedResults) < n
         THEN AddVector(Tail(vec), n,
                        [combinedResults |-> Append(acc.combinedResults, vr),
                         seenIds |-> acc.seenIds \cup {vr.id}])
         ELSE AddVector(Tail(vec), n, acc)

RECURSIVE AddKeyword(_, _, _)
\* third loop: keyword-only hits with the default similarity, while short
AddKeyword(kw, n, acc) ==
    IF kw = <<>> THEN acc
    ELSE LET kr == Head(kw) IN
         IF kr.id \notin acc.seenIds /\ Len(acc.combinedResults) < n
         THEN AddKeyword(Tail(kw), n,
                         [combinedResults |->
                              Append(acc.combinedResults,
                                     [id |-> kr.id, similarity |-> KeywordSim,
                                      rerank_score |-> <<>>]),
                          seenIds |-> acc.seenIds \cup {kr.id}])
         ELSE AddKeyword(Tail(kw), n, acc)

\* variant: without the final slice
CombineNoSlice(vec, kw, n) ==
    LET a0 == [combinedResults |-> <<>>, seenIds |-> {}]
        a1 == AddBoth(kw, vec, a0)
        a2 == AddVector(vec, n, a1)
        a3 == AddKeyword(kw, n, a2)
    IN a3.combinedResults

\* variant: the keyword-only loop run before the vector loop
CombineKeywordFirst(vec, kw, n) ==
    LET a0 == [combinedResults |-> <<>>, seenIds |-> {}]
        a1 == AddBoth(kw, vec, a0)
        a2 == AddKeyword(kw, n, a1)
        a3 == AddVector(vec, n, a2)
    IN Take(a3.combinedResults, n)

\* step 3 of the handler: combinedResults, then slice(0, match_count)
Combine(vec, kw, n) ==
    LET a0 == [combinedResults |-> <<>>, seenIds |-> {}]
        a1 == AddBoth(kw, vec, a0)
        a2 == AddVector(vec, n, a1)
        a3 == AddKeyword(kw, n, a2)
    IN Take(a3.combinedResults, n)

\* the similarity RPC asked for n rows: the n best ranked
VectorSearch(n) == Take(vectorRanking, n)

\* keywordQuery.limit(n): the first n matches; on error data is null and both
\* `if (keywordResults)` loops are skipped, as for an empty list
KeywordSearch(n) == IF keywordError THEN <<>> ELSE Take(keywordMatches, n)

\* the handler's vectorResults and keywordResults in hybrid mode
VectorHits == VectorSearch(match_count * 2)
KeywordHits == KeywordSearch(match_count * 2)

(***************************************************************************)
(* The rerank step.  A rerank response is a list of entries                *)
(* [index, relevanceScore], index counted from 0 as in the code; an        *)
(* outcome is the response or an error thrown by the rerank call.          *)
(***************************************************************************)
RelevanceScores == {0, 400, 900}

\* an index in range, or the first one past the end
RerankEntries(n) == [index : 0..n, relevanceScore : RelevanceScores]

RerankResponses(n) ==
    UNION { [1..k -> RerankEntries(n)] : k \in 0..MaxResp }

RerankOutcomes(n) ==
    { [throws |-> TRUE, results |-> <<>>] }
        \cup { [throws |-> FALSE, results |-> r] : r \in RerankResponses(n) }

RECURSIVE ApplyScores(_, _)
\* results[index].rerank_score = relevanceScore, for the indices in range
ApplyScores(res, resp) ==
    IF resp = <<>> THEN res
    ELSE LET e == Head(resp)
             next == IF e.index >= 0 /\ e.index < Len(res)
                     THEN [res EXCEPT ![e.index + 1].rerank_score = <<e.relevanceScore>>]
                     ELSE res
         IN ApplyScores(next, Tail(resp))

\* (r.rerank_score || 0)
RerankKey(r) == IF r.rerank_score = <<>> THEN 0 ELSE r.rerank_score[1]

RECURSIVE SortByRerank(_)
\* [...results].sort((a, b) => key(b) - key(a)): the stable descending sort
SortByRerank(s) ==
    IF s = <<>> THEN <<>>
    ELSE LET front == SortByRerank(SubSeq(s, 1, Len(s) - 1))
             x == s[Len(s)]
             k == Cardinality({ i \in 1..Len(front) : RerankKey(front[i]) >= RerankKey(x) })
         IN SubSeq(front, 1, k) \o <<x>> \o SubSeq(front, k + 1, Len(front))

\* variant: as the sibling rerankResults, only the documents the response lists
OnlyRanked(res, outcome) ==
    IF Len(res) = 0 \/ outcome.throws THEN res
    ELSE LET ok == SelectSeq(outcome.results,
                             LAMBDA e : e.index >= 0 /\ e.index < Len(res))
         IN [i \in 1..Len(ok) |->
                [res[ok[i].index + 1] EXCEPT !.rerank_score = <<ok[i].relevanceScore>>]]

\* rerankAndMergeResults, called with a Cohere key (useReranking requires one)
RerankAndMergeResults(res, outcome) ==
    IF Len(res) = 0 THEN res
    ELSE IF outcome.throws THEN res
    ELSE SortByRerank(ApplyScores(res, outcome.results))

(***************************************************************************)
(* The chunker.  A text is a sequence of characters; NL is the line        *)
(* separator, SP stands for every other whitespace character.              *)
(***************************************************************************)
NL == "\n"
SP == " "
Chars == {"a", "b", SP, NL}

Texts(maxLen) == UNION { [1..n -> Chars] : n \in 0..maxLen }

IsWs(c) == c \in {SP, NL}

RECURSIVE TrimStart(_)
TrimStart(s) == IF s # <<>> /\ IsWs(Head(s)) THEN TrimStart(Tail(s)) ELSE s

RECURSIVE TrimEnd(_)
TrimEnd(s) ==
    IF s # <<>> /\ IsWs(s[Len(s)]) THEN TrimEnd(SubSeq(s, 1, Len(s) - 1)) ELSE s

\* String.prototype.trim
Trim(s) == TrimEnd(TrimStart(s))

RECURSIVE SplitLines(_)
\* markdown.split('\n'): always at least one line
SplitLines(m) ==
    IF \A i \in 1..Len(m) : m[i] # NL THEN <<m>>
    ELSE LET k == CHOOSE i \in 1..Len(m) : m[i] = NL /\ \A j \in 1..(i - 1) : m[j] # NL
         IN <<SubSeq(m, 1, k - 1)>> \o SplitLines(SubSeq(m, k + 1, Len(m)))

\* variant: a flush that starts the next chunk empty
RECURSIVE ChunkLoopDropsLine(_, _, _)
ChunkLoopDropsLine(lines, maxSize, st) ==
    IF lines = <<>> THEN st
    ELSE LET line == Head(lines)
             lineSize == Len(line) + 1
         IN IF st.currentSize + lineSize > maxSize /\ Trim(st.currentChunk) # <<>>
            THEN ChunkLoopDropsLine(Tail(lines), maxSize,
                           [chunks |-> Append(st.chunks, Trim(st.currentChunk)),
                            currentChunk |-> <<>>,
                            currentSize |-> 0])
            ELSE ChunkLoopDropsLine(Tail(lines), maxSize,
                           [chunks |-> st.chunks,
                            currentChunk |-> st.currentChunk \o line \o <<NL>>,
                            currentSize |-> st.currentSize + lineSize])

\* variant: a flush decided on the size already accumulated
RECURSIVE ChunkLoopLateFlush(_, _, _)
ChunkLoopLateFlush(lines, maxSize, st) ==
    IF lines = <<>> THEN st
    ELSE LET line == Head(lines)
             lineSize == Len(line) + 1
         IN IF st.currentSize > maxSize /\ Trim(st.currentChunk) # <<>>
            THEN ChunkLoopLateFlush(Tail(lines), maxSize,
                           [chunks |-> Append(st.chunks, Trim(st.currentChunk)),
                            currentChunk |-> line \o <<NL>>,
                            currentSize |-> lineSize])
            ELSE ChunkLoopLateFlush(Tail(lines), maxSize,
                           [chunks |-> st.chunks,
                            currentChunk |-> st.currentChunk \o line \o <<NL>>,
                            currentSize |-> st.currentSize + lineSize])

RECURSIVE ChunkLoop(_, _, _)
\* the for loop over the lines
ChunkLoop(lines, maxSize, st) ==
    IF lines = <<>> THEN st
    ELSE LET line == Head(lines)
             lineSize == Len(line) + 1
         IN IF st.currentSize + lineSize > maxSize /\ Trim(st.currentChunk) # <<>>
            THEN ChunkLoop(Tail(lines), maxSize,
                           [chunks |-> Append(st.chunks, Trim(st.currentChunk)),
                            currentChunk |-> line \o <<NL>>,
                            currentSize |-> lineSize])
            ELSE ChunkLoop(Tail(lines), maxSize,
                           [chunks |-> st.chunks,
                            currentChunk |-> st.currentChunk \o line \o <<NL>>,
                            currentSize |-> st.currentSize + lineSize])

smartChunkMarkdown(m, maxSize) ==
    LET st == ChunkLoop(SplitLines(m), maxSize,
                        [chunks |-> <<>>, currentChunk |-> <<>>, currentSize |-> 0])
    IN IF Trim(st.currentChunk) # <<>>
       THEN Append(st.chunks, Trim(st.currentChunk))
       ELSE st.chunks

(***************************************************************************)
(* crawl_single_page, as far as the chunk count goes: no chunk is a        *)
(* failure; otherwise the source update and the store writes run, and the  *)
(* success envelope reports chunks.length; an error thrown while           *)
(* processing gives the failure envelope of the inner catch.               *)
(***************************************************************************)
NoEnvelope == [success |-> FALSE, chunks_stored |-> 0, error |-> "none"]

Envelopes(cs) ==
    IF Len(cs) = 0
    THEN { [success |-> FALSE, chunks_stored |-> 0, error |-> "No chunks generated from content"] }
    ELSE { [success |-> TRUE, chunks_stored |-> Len(cs), error |-> ""],
           [success |-> FALSE, chunks_stored |-> 0, error |-> "Error processing content"] }

ChunkContent ==
    /\ chunkPc = "input"
    /\ chunks' = smartChunkMarkdown(markdown, maxChunkSize)
    /\ envelope' \in Envelopes(chunks')
    /\ chunkPc' = "chunked"
    /\ UNCHANGED <<markdown, maxChunkSize>>
    /\ UNCHANGED nonChunkVars

(***************************************************************************)
(* The crawled_pages table and addDocumentsToSupabase, called by           *)
(* crawl_single_page with the chunks of one page.  A chunk's content is    *)
(* <<version, k>>: chunk k of the page content `version`.  Contextual      *)
(* embedding is off, so the stored content is the chunk.                   *)
(***************************************************************************)
Urls == {"u1", "u2", "u3", "u4"}
\* new URL(url): hostname as its labels, pathname.  u1 and u2 are two pages of
\* one site, u1 under its www. name; u3 has no host (as file:///docs); u4 is a
\* page of another site.
\* "a/", "a/p", "a/q" are the pages "/", "/p", "/q" of the site the crawler
\* is given.
Hostname(url) ==
    CASE url = "u1" -> <<"www", "a">>
      [] url = "u2" -> <<"a">>
      [] url = "u3" -> <<>>
      [] url \in {"a/", "a/p", "a/q"} -> <<"a">>
      [] OTHER -> <<"b">>
Pathname(url) ==
    CASE url = "u1" -> <<"/p1">>
      [] url = "u2" -> <<"/p2">>
      [] url = "u3" -> <<"/docs">>
      [] url = "a/p" -> <<"/p">>
      [] url = "a/q" -> <<"/q">>
      [] OTHER -> <<"/">>

\* .replace(/^www\./, ''): a leading "www." goes, a bare "www" stays
StripWww(h) == IF Len(h) > 1 /\ h[1] = "www" THEN Tail(h) ELSE h

\* (parsedUrl.hostname || parsedUrl.pathname).replace(/^www\./, '')
SourceIdOfUrl(url) ==
    StripWww(IF Hostname(url) # <<>> THEN Hostname(url) ELSE Pathname(url))

\* extractSourceMetadata(...).domain: the hostname alone
DomainOf(url) == StripWww(Hostname(url))
\* agent.props?.userId undefined: falsy
NoUser == ""
Users == {"alice", NoUser}
Versions == {"A", "B"}
Callers == {"c1", "c2"}
\* chunks of one page, rows per insert batch (batchSize, 20 by default, scaled
\* down), ingestion calls in one run
MaxChunks == 3
BatchSize == 2
MaxCalls == 2
\* maxRetries
MaxRetries == 3
\* let retryDelay = 1000 (milliseconds)
RetryDelayMs == 1000

\* crawl_single_page: urls, chunkNumbers (0-based), contents of one page
PageDocs(url, version, n) ==
    [k \in 1..n |-> [url |-> url, chunk_number |-> k - 1, content |-> <<version, k - 1>>]]

\* batchData: the row inserted for a document
RowOf(d, userId) ==
    [url |-> d.url, chunk_number |-> d.chunk_number, content |-> d.content,
     source_id |-> SourceIdOfUrl(d.url), user_id |-> userId]

\* [...new Set(urls)]: first occurrences, in order
UniqueUrls(docs) ==
    LET first == SortedSeqOf({ i \in 1..Len(docs) :
                                \A k \in 1..(i - 1) : docs[k].url # docs[i].url })
    IN [k \in 1..Len(first) |-> docs[first[k]].url]

SeqToSet(s) == { s[i] : i \in 1..Len(s) }

\* variant: the user_id filter applied also without a userId (matches no row)
DeleteRowsOwnerAlways(b, urls, userId) ==
    LET S == { r \in DOMAIN b : ~(r.url \in urls /\ userId # NoUser /\ r.user_id = userId) }
    IN [r \in S |-> b[r]]

\* variant: without the user_id filter
DeleteRowsAnyOwner(b, urls, userId) ==
    LET S == { r \in DOMAIN b : r.url \notin urls }
    IN [r \in S |-> b[r]]

\* delete().in("url", urls), with .eq("user_id", userId) only for a truthy userId
DeleteRows(b, urls, userId) ==
    LET S == { r \in DOMAIN b :
                 ~(r.url \in urls /\ (userId # NoUser => r.user_id = userId)) }
    IN [r \in S |-> b[r]]

RECURSIVE InsertRows(_, _, _)
\* insert(batchData): one new row per record
InsertRows(b, docs, userId) ==
    IF docs = <<>> THEN b
    ELSE InsertRows(b (+) SetToBag({RowOf(Head(docs), userId)}), Tail(docs), userId)

\* a call of addDocumentsToSupabase or addCodeExamplesToSupabase: its arguments
\* and locals (i, retry, retryDelay; j counts the inner loops), and as history
\* of the call what was requested: bulkDelete (the outcome of the bulk
\* delete), deleted (URLs of the per-URL deletes), deleteFailed (a delete
\* left its rows in the table), embedded (offsets of the
\* batches whose embeddings were created), fellBack (offsets of the batches
\* inserted record by record), stored (positions of the records whose insert
\* succeeded), and of the current batch: waited (delays between attempts), each
\* (records inserted one by one)
IdleCall ==
    [pc |-> "idle", docs |-> <<>>, userId |-> NoUser, i |-> 0, retry |-> 0, j |-> 0,
     failed |-> FALSE, prior |-> {}, retryDelay |-> 0, waited |-> <<>>, each |-> <<>>,
     bulkDelete |-> "none", deleted |-> <<>>, deleteFailed |-> FALSE, embedded |-> {},
     fellBack |-> {}, stored |-> {}]

StoreIdle ==
    /\ crawled_pages = EmptyBag
    /\ calls = [c \in Callers |-> IdleCall]
    /\ started = 0

\* a request to the store: it succeeds; it rejects (the await throws); or it
\* resolves with an error in its result, which changes nothing in the store and
\* which addDocumentsToSupabase and addCodeExamplesToSupabase do not look at
Outcomes == {"ok", "throws", "error"}

\* variant: a batch begins with the last record of the batch before it
BatchOfOverlapping(call) ==
    SubSeq(call.docs, IF call.i = 0 THEN 1 ELSE call.i,
           Min2(call.i + BatchSize, Len(call.docs)))

\* contents.slice(i, batchEnd)
BatchOf(call) == SubSeq(call.docs, call.i + 1, Min2(call.i + BatchSize, Len(call.docs)))

\* positions in docs of the records of the current batch
BatchPositions(call) == (call.i + 1)..Min2(call.i + BatchSize, Len(call.docs))

\* a round of the batch loop up to its first insert: the slices, the
\* embeddings (createEmbeddingsBatch returns), batchData, retryDelay = 1000
StartBatch(call, i) ==
    [call EXCEPT !.pc = "insert", !.i = i, !.retry = 0, !.j = 0,
                 !.retryDelay = RetryDelayMs, !.waited = <<>>, !.each = <<>>,
                 !.embedded = call.embedded \cup {i}]

\* variant: a batch that failed ends the call
NextBatchStopOnFailure(call) ==
    IF call.i + BatchSize < Len(call.docs) /\ ~call.failed
    THEN StartBatch(call, call.i + BatchSize)
    ELSE [call EXCEPT !.pc = "done", !.retry = 0, !.j = 0]

\* the for loop's next round: the next batch, or the end of the call
NextBatch(call) ==
    IF call.i + BatchSize < Len(call.docs)
    THEN StartBatch(call, call.i + BatchSize)
    ELSE [call EXCEPT !.pc = "done", !.retry = 0, !.j = 0]

\* the rows a call's delete is about: its urls, its owner (all owners without one)
InScope(call, r) ==
    /\ r.url \in SeqToSet(UniqueUrls(call.docs))
    /\ call.userId # NoUser => r.user_id = call.userId

\* crawl_single_page up to its call of addDocumentsToSupabase: the page (its url
\* one of `urls`) was fetched and chunked (at least one chunk).  `exclusive`: no
\* other call runs.
StartCrawlSinglePage(c, exclusive, urls) ==
    /\ calls[c].pc = "idle"
    /\ started < MaxCalls
    /\ exclusive => \A d \in Callers : calls[d].pc = "idle"
    /\ \E url \in urls, version \in Versions, n \in 1..MaxChunks, userId \in Users :
          calls' = [calls EXCEPT ![c] =
                      [IdleCall EXCEPT
                         !.pc = "delete", !.docs = PageDocs(url, version, n),
                         !.userId = userId,
                         !.prior = { r \in BagToSet(crawled_pages) :
                                       r.url = url /\ (userId # NoUser => r.user_id = userId) }]]
    /\ started' = started + 1
    /\ UNCHANGED crawled_pages
    /\ UNCHANGED nonStoreVars

\* the bulk delete; when it throws, the per-URL fallback follows, otherwise
\* the batch loop
BulkDelete(c) ==
    /\ calls[c].pc = "delete"
    /\ \E outcome \in Outcomes :
          LET call == [calls[c] EXCEPT !.bulkDelete = outcome,
                                       !.failed = outcome # "ok",
                                       !.deleteFailed = outcome = "error"]
          IN /\ crawled_pages' = IF outcome = "ok"
                                 THEN DeleteRows(crawled_pages,
                                                 SeqToSet(UniqueUrls(call.docs)),
                                                 call.userId)
                                 ELSE crawled_pages
             /\ calls' = [calls EXCEPT ![c] =
                            IF outcome = "throws"
                            THEN [call EXCEPT !.pc = "deleteEach", !.j = 1]
                            ELSE StartBatch(call, 0)]
    /\ UNCHANGED started
    /\ UNCHANGED nonStoreVars

\* one round of the fallback loop: delete the rows of one URL, or log the error
DeleteEach(c) ==
    /\ calls[c].pc = "deleteEach"
    /\ LET urls == UniqueUrls(calls[c].docs)
           url == urls[calls[c].j]
           last == calls[c].j = Len(urls)
       IN \E outcome \in Outcomes :
             LET call == [calls[c] EXCEPT
                            !.deleted = Append(calls[c].deleted, url),
                            !.deleteFailed = calls[c].deleteFailed \/ outcome # "ok"]
             IN /\ crawled_pages' = IF outcome = "ok"
                                    THEN DeleteRows(crawled_pages, {url}, call.userId)
                                    ELSE crawled_pages
                /\ calls' = [calls EXCEPT ![c] =
                               IF last THEN StartBatch(call, 0)
                               ELSE [call EXCEPT !.j = call.j + 1]]
    /\ UNCHANGED started
    /\ UNCHANGED nonStoreVars

\* variant: the records one by one right after the first failed attempt
AfterBulkFailureNoRetry(call) ==
    [call EXCEPT !.pc = "insertEach", !.j = 1, !.failed = TRUE,
                 !.fellBack = call.fellBack \cup {call.i}]

\* the catch of the retry loop: wait retryDelay and double it, or after the
\* last attempt go on to the records one by one
AfterBulkFailure(call) ==
    IF call.retry < MaxRetries - 1
    THEN [call EXCEPT !.retry = call.retry + 1, !.failed = TRUE,
                      !.waited = Append(call.waited, call.retryDelay),
                      !.retryDelay = call.retryDelay * 2]
    ELSE [call EXCEPT !.pc = "insertEach", !.j = 1, !.failed = TRUE,
                      !.fellBack = call.fellBack \cup {call.i}]

\* an insert that resolved: break (its result is not looked at)
AfterBulkResolved(call, outcome) ==
    NextBatch([call EXCEPT !.failed = call.failed \/ outcome # "ok",
                           !.stored = IF outcome = "ok"
                                      THEN call.stored \cup BatchPositions(call)
                                      ELSE call.stored])

\* a per-record insert was made: the next record, or the next batch
AfterEach(call, outcome) ==
    LET made == [call EXCEPT !.each = Append(call.each, BatchOf(call)[call.j]),
                             !.stored = IF outcome = "ok"
                                        THEN call.stored \cup {call.i + call.j}
                                        ELSE call.stored]
    IN IF call.j = Len(BatchOf(call)) THEN NextBatch(made)
       ELSE [made EXCEPT !.j = call.j + 1]

\* one attempt of the retry loop: the bulk insert of the batch
InsertBatch(c) ==
    /\ calls[c].pc = "insert"
    /\ \E outcome \in Outcomes :
          /\ crawled_pages' = IF outcome = "ok"
                              THEN InsertRows(crawled_pages, BatchOf(calls[c]),
                                              calls[c].userId)
                              ELSE crawled_pages
          /\ calls' = [calls EXCEPT ![c] =
                         IF outcome = "throws" THEN AfterBulkFailure(calls[c])
                         ELSE AfterBulkResolved(calls[c], outcome)]
    /\ UNCHANGED started
    /\ UNCHANGED nonStoreVars

\* after the last attempt: the records of the batch one by one
InsertEach(c) ==
    /\ calls[c].pc = "insertEach"
    /\ \E outcome \in Outcomes :
          /\ crawled_pages' = IF outcome = "ok"
                              THEN InsertRows(crawled_pages,
                                              <<BatchOf(calls[c])[calls[c].j]>>,
                                              calls[c].userId)
                              ELSE crawled_pages
          /\ calls' = [calls EXCEPT ![c] = AfterEach(calls[c], outcome)]
    /\ UNCHANGED started
    /\ UNCHANGED nonStoreVars

\* the tool answers
Return(c) ==
    /\ calls[c].pc = "done"
    /\ calls' = [calls EXCEPT ![c] = IdleCall]
    /\ UNCHANGED <<crawled_pages, started>>
    /\ UNCHANGED nonStoreVars

(***************************************************************************)
(* The two ingestion tools from the crawl's result to the answer: the      *)
(* source upserts, addDocumentsToSupabase, addCodeExamplesToSupabase.      *)
(* A page of the crawl's result is [url, n, blocks]: its url, the number   *)
(* of chunks and of code blocks of its markdown.  A sources row is         *)
(* [source_id, summary]; the summary is the content version of the call    *)
(* that wrote it last.                                                     *)
(***************************************************************************)
Tools == {"crawl_single_page", "smart_crawl_url"}
\* pages in one crawl's result; chunks, and code blocks, of one page
MaxPages == 2
MaxPageChunks == 1

\* crawl results of 1..maxPages pages, each page with the same number of
\* chunks (minChunks or more) and of code blocks
CrawlResults(urls, maxPages, minChunks) ==
    { [i \in 1..Len(us) |-> [url |-> us[i], n |-> n, blocks |-> blocks]] :
        us \in UNION { [1..k -> urls] : k \in 1..maxPages },
        n \in minChunks..MaxPageChunks, blocks \in 0..MaxPageChunks }

RECURSIVE DocsOf(_, _)
\* the urls / chunkNumbers / contents arrays: the chunks of every page, numbered
\* from 0 within the page
DocsOf(pages, version) ==
    IF pages = <<>> THEN <<>>
    ELSE DocsOf(SubSeq(pages, 1, Len(pages) - 1), version)
           \o PageDocs(pages[Len(pages)].url, version, pages[Len(pages)].n)

RECURSIVE CodeDocsOf(_, _)
\* codeUrls / codeChunkNumbers / codeExamples: the code blocks of every page,
\* numbered by their position in the whole list
CodeDocsOf(pages, version) ==
    IF pages = <<>> THEN <<>>
    ELSE LET front == CodeDocsOf(SubSeq(pages, 1, Len(pages) - 1), version)
             p == pages[Len(pages)]
         IN front \o [k \in 1..p.blocks |->
                        [url |-> p.url, chunk_number |-> Len(front) + k - 1,
                         content |-> <<version, Len(front) + k - 1>>]]

RECURSIVE SourceKeys(_)
\* Object.keys(sourceContentMap): the source ids of the pages, each once, in
\* the order of their first page
SourceKeys(pages) ==
    IF pages = <<>> THEN <<>>
    ELSE LET front == SourceKeys(SubSeq(pages, 1, Len(pages) - 1))
             id == SourceIdOfUrl(pages[Len(pages)].url)
         IN IF \E i \in 1..Len(front) : front[i] = id THEN front ELSE Append(front, id)

\* the source ids a tool upserts: crawl_single_page its metadata.domain,
\* smart_crawl_url the keys of its sourceContentMap
SourceIdsOf(tool, pages) ==
    IF tool = "crawl_single_page" THEN <<DomainOf(pages[1].url)>> ELSE SourceKeys(pages)

IdleTool ==
    [pc |-> "idle", tool |-> "crawl_single_page", pages |-> <<>>, version |-> "A",
     userId |-> NoUser, agentic |-> FALSE, srcs |-> <<>>, s |-> 0, upserts |-> 0,
     answer |-> <<>>]

IngestIdle ==
    /\ sources = EmptyBag
    /\ code_examples = EmptyBag
    /\ ingest = [c \in Callers |-> IdleTool]
    /\ codeCalls = [c \in Callers |-> IdleCall]

\* the tool has its crawl's result (crawl_single_page: one page with at least
\* one chunk; smart_crawl_url: at least one page) and starts the source loop
StartTool(c, urls, versions) ==
    /\ ingest[c].pc = "idle"
    /\ started < MaxCalls
    /\ \E tool \in Tools, version \in versions, userId \in Users, agentic \in BOOLEAN :
         \E pages \in IF tool = "crawl_single_page"
                      THEN CrawlResults(urls, 1, 1)
                      ELSE CrawlResults(urls, MaxPages, 0) :
            ingest' = [ingest EXCEPT ![c] =
                         [pc |-> "source", tool |-> tool, pages |-> pages,
                          version |-> version, userId |-> userId, agentic |-> agentic,
                          srcs |-> SourceIdsOf(tool, pages), s |-> 1, upserts |-> 0,
                          answer |-> <<>>]]
    /\ started' = started + 1
    /\ UNCHANGED <<crawled_pages, calls, sources, code_examples, codeCalls>>
    /\ UNCHANGED nonIngestVars

\* the rows .update(...).eq('source_id', id) changes
UpdateRows(b, id, summary) ==
    LET Upd(r) == IF r.source_id = id THEN [r EXCEPT !.summary = summary] ELSE r
        T == { Upd(r) : r \in DOMAIN b }
        Sum(t) == LET RECURSIVE Add(_)
                      Add(S) == IF S = {} THEN 0
                                ELSE LET r == CHOOSE x \in S : TRUE
                                     IN b[r] + Add(S \ {r})
                  IN Add({ r \in DOMAIN b : Upd(r) = t })
    IN [t \in T |-> Sum(t)]

\* rows with that source_id
Matching(b, id) ==
    LET RECURSIVE Add(_)
        Add(S) == IF S = {} THEN 0
                  ELSE LET r == CHOOSE x \in S : TRUE IN b[r] + Add(S \ {r})
    IN Add({ r \in DOMAIN b : r.source_id = id })

\* variant: the pages are tested for chunks after the source loop
NextSourceThenTest(t) ==
    IF t.s < Len(t.srcs)
    THEN [t EXCEPT !.pc = "source", !.s = t.s + 1, !.upserts = t.upserts + 1]
    ELSE IF \A i \in 1..Len(t.pages) : t.pages[i].n = 0
         THEN [t EXCEPT !.pc = "idle", !.upserts = t.upserts + 1,
                        !.answer = <<[success |-> FALSE, error |-> "No content found"]>>]
         ELSE [t EXCEPT !.pc = "addDocuments", !.upserts = t.upserts + 1]

\* variant: the tool goes on to the documents after its first source
NextSourceFirstOnly(t) ==
    [t EXCEPT !.pc = "addDocuments", !.upserts = t.upserts + 1]

\* updateSourceInfo returned: the next source id of the loop, or the documents
NextSource(t) ==
    IF t.s < Len(t.srcs)
    THEN [t EXCEPT !.pc = "source", !.s = t.s + 1, !.upserts = t.upserts + 1]
    ELSE [t EXCEPT !.pc = "addDocuments", !.upserts = t.upserts + 1]

\* the outcomes of the update request: it throws; it resolves with an error
\* (no row changed, count null); it changes the rows and resolves, with the
\* number of changed rows in count or with count null
UpdateOutcomes == {"throws", "error", "count", "nocount"}

\* updateSourceInfo: the update, and what follows from `result.count || 0`
UpdateSource(c) ==
    /\ ingest[c].pc = "source"
    /\ LET t == ingest[c]
           id == t.srcs[t.s]
       IN \E outcome \in UpdateOutcomes :
             LET done == outcome \in {"count", "nocount"}
                 rowsAffected == IF outcome = "count" THEN Matching(sources, id) ELSE 0
             IN /\ sources' = IF done THEN UpdateRows(sources, id, t.version) ELSE sources
                /\ ingest' = [ingest EXCEPT ![c] =
                                IF outcome = "throws" THEN NextSource(t)
                                ELSE IF rowsAffected = 0
                                     THEN [t EXCEPT !.pc = "sourceInsert"]
                                     ELSE NextSource(t)]
    /\ UNCHANGED <<crawled_pages, calls, started, code_examples, codeCalls>>
    /\ UNCHANGED nonIngestVars

\* updateSourceInfo: the insert of a new row; its failure is logged or ignored
InsertSource(c) ==
    /\ ingest[c].pc = "sourceInsert"
    /\ LET t == ingest[c]
       IN /\ \E ok \in BOOLEAN :
                sources' = IF ok
                           THEN sources (+) SetToBag({[source_id |-> t.srcs[t.s],
                                                       summary |-> t.version]})
                           ELSE sources
          /\ ingest' = [ingest EXCEPT ![c] = NextSource(t)]
    /\ UNCHANGED <<crawled_pages, calls, started, code_examples, codeCalls>>
    /\ UNCHANGED nonIngestVars

\* the tool calls addDocumentsToSupabase, which runs up to its first request
\* (no request at all for an empty list)
CallAddDocuments(c) ==
    /\ ingest[c].pc = "addDocuments"
    /\ LET t == ingest[c]
           docs == DocsOf(t.pages, t.version)
       IN calls' = [calls EXCEPT ![c] =
                      [IdleCall EXCEPT !.pc = IF docs = <<>> THEN "done" ELSE "delete",
                                       !.docs = docs, !.userId = t.userId]]
    /\ ingest' = [ingest EXCEPT ![c].pc = "documents"]
    /\ UNCHANGED <<crawled_pages, started, sources, code_examples, codeCalls>>
    /\ UNCHANGED nonIngestVars

\* the row inserted for a code example
CodeRowOf(d, userId) ==
    [url |-> d.url, chunk_number |-> d.chunk_number, content |-> d.content,
     source_id |-> SourceIdOfUrl(d.url), user_id |-> userId]

RECURSIVE InsertCodeRows(_, _, _)
InsertCodeRows(b, docs, userId) ==
    IF docs = <<>> THEN b
    ELSE InsertCodeRows(b (+) SetToBag({CodeRowOf(Head(docs), userId)}), Tail(docs), userId)

\* addDocumentsToSupabase returned: the code examples when USE_AGENTIC_RAG is
\* on and the pages have code blocks, else the answer
DocumentsReturn(c) ==
    /\ ingest[c].pc = "documents"
    /\ calls[c].pc = "done"
    /\ LET t == ingest[c]
           codeDocs == CodeDocsOf(t.pages, t.version)
           code == t.agentic /\ codeDocs # <<>>
       IN /\ ingest' = [ingest EXCEPT ![c].pc = IF code THEN "code" ELSE "answer"]
          /\ codeCalls' = [codeCalls EXCEPT ![c] =
                             IF code
                             THEN [IdleCall EXCEPT !.pc = "delete", !.docs = codeDocs,
                                                   !.userId = t.userId, !.j = 1]
                             ELSE IdleCall]
    /\ calls' = [calls EXCEPT ![c] = IdleCall]
    /\ UNCHANGED <<crawled_pages, started, sources, code_examples>>
    /\ UNCHANGED nonIngestVars

\* addCodeExamplesToSupabase: one round of its delete loop
CodeDelete(c) ==
    /\ codeCalls[c].pc = "delete"
    /\ LET urls == UniqueUrls(codeCalls[c].docs)
           url == urls[codeCalls[c].j]
           last == codeCalls[c].j = Len(urls)
       IN \E outcome \in Outcomes :
             LET call == [codeCalls[c] EXCEPT
                            !.deleted = Append(codeCalls[c].deleted, url),
                            !.deleteFailed = codeCalls[c].deleteFailed \/ outcome # "ok",
                            !.failed = codeCalls[c].failed \/ outcome # "ok"]
             IN /\ code_examples' = IF outcome = "ok"
                                    THEN DeleteRows(code_examples, {url}, call.userId)
                                    ELSE code_examples
                /\ codeCalls' = [codeCalls EXCEPT ![c] =
                                   IF last THEN StartBatch(call, 0)
                                   ELSE [call EXCEPT !.j = call.j + 1]]
    /\ UNCHANGED <<crawled_pages, calls, started, sources, ingest>>
    /\ UNCHANGED nonIngestVars

\* addCodeExamplesToSupabase: one attempt of the retry loop
CodeInsertBatch(c) ==
    /\ codeCalls[c].pc = "insert"
    /\ \E outcome \in Outcomes :
          /\ code_examples' = IF outcome = "ok"
                              THEN InsertCodeRows(code_examples, BatchOf(codeCalls[c]),
                                                  codeCalls[c].userId)
                              ELSE code_examples
          /\ codeCalls' = [codeCalls EXCEPT ![c] =
                             IF outcome = "throws" THEN AfterBulkFailure(codeCalls[c])
                             ELSE AfterBulkResolved(codeCalls[c], outcome)]
    /\ UNCHANGED <<crawled_pages, calls, started, sources, ingest>>
    /\ UNCHANGED nonIngestVars

\* addCodeExamplesToSupabase: the records of the batch one by one
CodeInsertEach(c) ==
    /\ codeCalls[c].pc = "insertEach"
    /\ \E outcome \in Outcomes :
          /\ code_examples' = IF outcome = "ok"
                              THEN InsertCodeRows(code_examples,
                                                  <<BatchOf(codeCalls[c])[codeCalls[c].j]>>,
                                                  codeCalls[c].userId)
                              ELSE code_examples
          /\ codeCalls' = [codeCalls EXCEPT ![c] = AfterEach(codeCalls[c], outcome)]
    /\ UNCHANGED <<crawled_pages, calls, started, sources, ingest>>
    /\ UNCHANGED nonIngestVars

\* addCodeExamplesToSupabase returned
CodeReturn(c) ==
    /\ ingest[c].pc = "code"
    /\ codeCalls[c].pc = "done"
    /\ codeCalls' = [codeCalls EXCEPT ![c] = IdleCall]
    /\ ingest' = [ingest EXCEPT ![c].pc = "answer"]
    /\ UNCHANGED <<crawled_pages, calls, started, sources, code_examples>>
    /\ UNCHANGED nonIngestVars

\* variant: the pages are counted, not their chunks
ChunkCountPages(pages) == Len(pages)

RECURSIVE ChunkCount(_)
\* chunkCount after the chunk loop: one more for every chunk of every page
ChunkCount(pages) ==
    IF pages = <<>> THEN 0
    ELSE ChunkCount(SubSeq(pages, 1, Len(pages) - 1)) + pages[Len(pages)].n

RECURSIVE AllCodeBlocks(_, _)
\* allCodeBlocks.length: the blocks of every page pushed when the extraction
\* is on, nothing otherwise
AllCodeBlocks(pages, agentic) ==
    IF pages = <<>> \/ ~agentic THEN 0
    ELSE AllCodeBlocks(SubSeq(pages, 1, Len(pages) - 1), agentic) + pages[Len(pages)].blocks

\* the success envelope of the two tools, the fields about the ingestion
SuccessEnvelope(t) ==
    IF t.tool = "smart_crawl_url"
    THEN [success |-> TRUE, pages_crawled |-> Len(t.pages),
          chunks_stored |-> ChunkCount(t.pages),
          code_examples_stored |-> AllCodeBlocks(t.pages, t.agentic),
          sources_updated |-> Len(SourceKeys(t.pages))]
    ELSE [success |-> TRUE, chunks_stored |-> t.pages[1].n,
          code_examples_stored |-> IF t.agentic THEN t.pages[1].blocks ELSE 0,
          source_id |-> DomainOf(t.pages[1].url)]

\* the tool answers with its success envelope
Answer(c) ==
    /\ ingest[c].pc = "answer"
    /\ ingest' = [ingest EXCEPT ![c] =
                    [IdleTool EXCEPT !.answer = <<SuccessEnvelope(ingest[c])>>]]
    /\ UNCHANGED <<crawled_pages, calls, started, sources, code_examples, codeCalls>>
    /\ UNCHANGED nonIngestVars

(***************************************************************************)
(* The crawler.  A URL is [site, path, frag]; the render collaborator      *)
(* answers a fetch with a rejection, a status, or a body.  A body is       *)
(* [kind, text, links]: empty, whitespace only, or a document with or      *)
(* without text and with the URLs its anchors point to.  Markdown is a     *)
(* sequence, <<>> the empty string.                                        *)
(***************************************************************************)
Paths == {"/", "/p", "/q"}
Frags == {"", "f"}
\* the URLs of the crawled site, one URL of another site, and one URL of a
\* third site whose host name begins with the name of the crawled site (as
\* a.com.evil.org begins with a.com); the scheme is the same everywhere
SiteUrls == [site : {"a"}, path : Paths, frag : Frags]
ExternalUrl == [site |-> "x", path |-> "/", frag |-> ""]
LookalikeUrl == [site |-> "a.evil", path |-> "/", frag |-> ""]
CrawlUrls == SiteUrls \cup {ExternalUrl, LookalikeUrl}

\* a host name as the pieces of its string
Host(site) == IF site = "a.evil" THEN <<"a", ".evil">> ELSE <<site>>

\* s.startsWith(p)
StartsWith(s, p) == Len(p) <= Len(s) /\ SubSeq(s, 1, Len(p)) = p

\* anchors in one document, URLs in one list of seeds or of a sitemap,
\* max_depth, max_concurrent
MaxLinks == 1
MaxUrls == 3
MaxDepth == 2
MaxConcurrent == 2

NoHtml == [kind |-> "empty", text |-> FALSE, links |-> <<>>]
Htmls ==
    {NoHtml, [kind |-> "blank", text |-> FALSE, links |-> <<>>]}
      \cup [kind : {"doc"}, text : BOOLEAN,
            links : UNION { [1..k -> CrawlUrls] : k \in 0..MaxLinks }]

\* what fetch gives: it rejects (a network error or a timeout, with the
\* runtime's message), or it resolves with a status and a body
Responses ==
    [kind : {"reject"}, message : {"fetch failed"}, ok : {FALSE}, html : {NoHtml}]
      \cup [kind : {"status"}, message : {""}, ok : {FALSE}, html : {NoHtml}]
      \cup [kind : {"status"}, message : {""}, ok : {TRUE}, html : Htmls]

\* htmlToMarkdown: the text of the document, trimmed
htmlToMarkdown(html) == IF html.text THEN <<"text">> ELSE <<>>

\* extractLinksFromHtml: every anchor with its URL; internal when the URL
\* string starts with the origin string of the page.  A URL string is its
\* origin followed by a path that begins with "/", a character no host name
\* has: the test is decided by the two host names.
extractLinksFromHtml(html, url) ==
    [i \in 1..Len(html.links) |->
        [url |-> html.links[i],
         internal |-> StartsWith(Host(html.links[i].site), Host(url.site))]]

\* the try block of crawl: what it returns, or the error it throws
CrawlBody(url, resp) ==
    IF resp.kind = "reject"
    THEN [threw |-> TRUE, message |-> resp.message]
    ELSE IF ~resp.ok
    THEN [threw |-> TRUE, message |-> "Browserless API error"]
    ELSE IF resp.html.kind \in {"empty", "blank"}
    THEN [threw |-> TRUE, message |-> "No HTML content received from Browserless"]
    ELSE [threw |-> FALSE, message |-> "",
          value |-> [url |-> url, html |-> resp.html,
                     markdown |-> htmlToMarkdown(resp.html),
                     links |-> extractLinksFromHtml(resp.html, url),
                     success |-> TRUE, error |-> <<>>]]

\* variant: a body without content is passed on as a success
CrawlAcceptsEmpty(url, resp) ==
    IF resp.kind = "status" /\ resp.ok
    THEN [threw |-> FALSE, url |-> url, html |-> resp.html,
          markdown |-> htmlToMarkdown(resp.html),
          links |-> extractLinksFromHtml(resp.html, url),
          success |-> TRUE, error |-> <<>>]
    ELSE [threw |-> FALSE, url |-> url, html |-> NoHtml, markdown |-> <<>>,
          links |-> <<>>, success |-> FALSE, error |-> <<"error">>]

\* crawl: the try block, and the catch that turns an error into a result
Crawl(url, resp) ==
    LET body == CrawlBody(url, resp)
    IN IF body.threw
       THEN [threw |-> FALSE, url |-> url, html |-> NoHtml, markdown |-> <<>>,
             links |-> <<>>, success |-> FALSE, error |-> <<body.message>>]
       ELSE [threw |-> FALSE] @@ body.value

NoCrawl == [resp |-> [kind |-> "none"], result |-> [threw |-> FALSE]]

\* variant: the fragment is kept
KeepFragment(url) == url

\* normalizeUrl: the URL without its fragment
normalizeUrl(url) == [url EXCEPT !.frag = ""]

RECURSIVE AddAll(_, _)
\* Set.add of every element of a list: a set in insertion order
AddAll(acc, xs) ==
    IF xs = <<>> THEN acc
    ELSE AddAll(IF \E i \in 1..Len(acc) : acc[i] = Head(xs) THEN acc
                ELSE Append(acc, Head(xs)),
                Tail(xs))

IdleRec ==
    [visited |-> {}, currentUrls |-> <<>>, depth |-> 0, resultsAll |-> <<>>,
     results |-> <<>>, k |-> 0, nextLevelUrls |-> <<>>]

\* done: per position of the window, the value its promise resolved with:
\* <<result>>, or <<>> for null
IdleBat ==
    [urls |-> <<>>, i |-> 0, inFlight |-> {}, done |-> <<>>, results |-> <<>>]

\* fetched: the URLs given to the render collaborator, each request counted;
\* good: the positions of the running crawlBatch whose fetch succeeded with
\* markdown; levels: the crawlBatch calls of crawlRecursiveInternalLinks
NoHist == [fetched |-> EmptyBag, good |-> {}, levels |-> 0]

NoReq == [mode |-> "none", urls |-> <<>>, maxDepth |-> 1, maxConcurrent |-> 1,
          output |-> <<>>]

CrawlIdle ==
    /\ crawlPc = "idle"
    /\ req = NoReq
    /\ rec = IdleRec
    /\ bat = IdleBat
    /\ hist = NoHist
    /\ lastCrawl = NoCrawl

\* crawlBatch is entered with a list of URLs
EnterBatch(urls) == [IdleBat EXCEPT !.urls = urls]

\* the top-level call: crawlBatch(urls, maxConcurrent), or
\* crawlRecursiveInternalLinks(urls, maxDepth, maxConcurrent)
CallCrawler ==
    /\ crawlPc = "start"
    /\ IF req.mode = "batch"
       THEN /\ bat' = EnterBatch(req.urls)
            /\ rec' = rec
            /\ crawlPc' = "launch"
       ELSE /\ rec' = [IdleRec EXCEPT
                          !.currentUrls = AddAll(<<>>, [i \in 1..Len(req.urls) |->
                                                          normalizeUrl(req.urls[i])])]
            /\ bat' = bat
            /\ crawlPc' = "level"
    /\ UNCHANGED <<req, hist, lastCrawl>>
    /\ UNCHANGED nonCrawlVars

\* Array.from(currentUrls).filter(url => !visited.has(normalizeUrl(url)))
UrlsToCrawl(r) == SelectSeq(r.currentUrls, LAMBDA u : normalizeUrl(u) \notin r.visited)

\* variant: the loop goes on whatever the depth
MoreLevelsNoCeiling(r, maxDepth) == UrlsToCrawl(r) # <<>>

\* the for loop's condition and the break on an empty list
MoreLevels(r, maxDepth) == r.depth < maxDepth /\ UrlsToCrawl(r) # <<>>

\* the head of a depth level: the crawlBatch call, or the return
LevelStart ==
    /\ crawlPc = "level"
    /\ IF MoreLevels(rec, req.maxDepth)
       THEN /\ bat' = EnterBatch(UrlsToCrawl(rec))
            /\ hist' = [hist EXCEPT !.levels = hist.levels + 1, !.good = {}]
            /\ crawlPc' = "launch"
            /\ req' = req
       ELSE /\ req' = [req EXCEPT !.output = rec.resultsAll]
            /\ crawlPc' = "returned"
            /\ UNCHANGED <<bat, hist>>
    /\ UNCHANGED <<rec, lastCrawl>>
    /\ UNCHANGED nonCrawlVars

\* variant: every remaining URL is started at once
WindowNoLimit(b, maxConcurrent) == (b.i + 1)..Len(b.urls)

\* urls.slice(i, i + maxConcurrent): the positions of the window
Window(b, maxConcurrent) == (b.i + 1)..Min2(b.i + maxConcurrent, Len(b.urls))

RECURSIVE AddUrls(_, _, _)
AddUrls(b, urls, S) ==
    IF S = {} THEN b
    ELSE LET p == CHOOSE x \in S : TRUE
         IN AddUrls(b (+) SetToBag({urls[p]}), urls, S \ {p})

\* batch.map(async url => ...): the fetch of every URL of the window starts
Launch ==
    /\ crawlPc = "launch"
    /\ LET w == Window(bat, req.maxConcurrent)
       IN /\ bat' = [bat EXCEPT !.inFlight = w, !.done = [p \in {} |-> <<>>]]
          /\ hist' = [hist EXCEPT !.fetched = AddUrls(hist.fetched, bat.urls, w)]
    /\ crawlPc' = "await"
    /\ UNCHANGED <<req, rec, lastCrawl>>
    /\ UNCHANGED nonCrawlVars

\* what a promise of the window resolves with
Resolved(r) ==
    IF r.success /\ r.markdown # <<>>
    THEN <<[url |-> r.url, markdown |-> r.markdown]>> ELSE <<>>

\* the responses to a fetch of crawlBatch, which keeps the url and the markdown
\* of a result and drops its links: the documents are taken without anchors or
\* with a text and one anchor, to a page of the site
BatchResponses ==
    { resp \in Responses :
        \/ resp.html.links = <<>>
        \/ /\ resp.html.links = <<[site |-> "a", path |-> "/q", frag |-> ""]>>
           /\ resp.html.text }

\* one fetch of the window completes, in any order
FetchComplete ==
    /\ crawlPc = "await"
    /\ \E p \in bat.inFlight, resp \in BatchResponses :
          LET r == Crawl(bat.urls[p], resp)
          IN /\ bat' = [bat EXCEPT !.inFlight = bat.inFlight \ {p},
                                   !.done = (p :> Resolved(r)) @@ bat.done]
             /\ hist' = [hist EXCEPT !.good = IF Resolved(r) # <<>>
                                              THEN hist.good \cup {p} ELSE hist.good]
    /\ UNCHANGED <<crawlPc, req, rec, lastCrawl>>
    /\ UNCHANGED nonCrawlVars

RECURSIVE CompletionOrder(_, _)
\* variant: the results in whatever order (here the highest position first)
CompletionOrder(done, w) ==
    IF w = {} THEN <<>>
    ELSE LET p == CHOOSE x \in w : \A y \in w : y <= x
         IN done[p] \o CompletionOrder(done, w \ {p})

RECURSIVE Gather(_, _)
\* batchResults.forEach: the non-null results in the order of the window
Gather(done, w) ==
    IF w = {} THEN <<>>
    ELSE LET p == CHOOSE x \in w : \A y \in w : x <= y
         IN done[p] \o Gather(done, w \ {p})

\* Promise.all resolved: the results of the window are appended; then the
\* delay before the next window, or crawlBatch returns to its caller
WindowDone ==
    /\ crawlPc = "await"
    /\ bat.inFlight = {}
    /\ LET gathered == bat.results \o Gather(bat.done, DOMAIN bat.done)
           more == bat.i + req.maxConcurrent < Len(bat.urls)
       IN /\ bat' = [bat EXCEPT !.results = gathered]
          /\ IF more
             THEN /\ crawlPc' = "delay"
                  /\ UNCHANGED <<req, rec>>
             ELSE IF req.mode = "batch"
             THEN /\ crawlPc' = "returned"
                  /\ req' = [req EXCEPT !.output = gathered]
                  /\ rec' = rec
             ELSE /\ crawlPc' = "links"
                  /\ rec' = [rec EXCEPT !.results = gathered, !.k = 1,
                                        !.nextLevelUrls = <<>>]
                  /\ req' = req
    /\ UNCHANGED <<hist, lastCrawl>>
    /\ UNCHANGED nonCrawlVars

\* the delay between two windows is over
DelayElapsed ==
    /\ crawlPc = "delay"
    /\ bat' = [bat EXCEPT !.i = bat.i + req.maxConcurrent]
    /\ crawlPc' = "launch"
    /\ UNCHANGED <<req, rec, hist, lastCrawl>>
    /\ UNCHANGED nonCrawlVars

\* the loop over the results of the level: the result is marked visited and
\* kept, and its page is fetched again for its links; after the last result
\* the next level
LinkStep ==
    /\ crawlPc = "links"
    /\ IF rec.k <= Len(rec.results)
       THEN LET result == rec.results[rec.k]
            IN /\ rec' = [rec EXCEPT
                            !.visited = rec.visited \cup {normalizeUrl(result.url)},
                            !.resultsAll = IF result.markdown # <<>>
                                           THEN Append(rec.resultsAll, result)
                                           ELSE rec.resultsAll]
               /\ IF result.markdown # <<>>
                  THEN /\ hist' = [hist EXCEPT !.fetched =
                                     hist.fetched (+) SetToBag({result.url})]
                       /\ crawlPc' = "linkFetch"
                  ELSE /\ hist' = hist
                       /\ crawlPc' = "links"
       ELSE /\ rec' = [rec EXCEPT !.currentUrls = rec.nextLevelUrls,
                                  !.depth = rec.depth + 1]
            /\ crawlPc' = IF rec.depth < req.maxDepth - 1 /\ rec.nextLevelUrls # <<>>
                          THEN "levelDelay" ELSE "level"
            /\ hist' = hist
    /\ UNCHANGED <<req, bat, lastCrawl>>
    /\ UNCHANGED nonCrawlVars

\* the internal links of a crawl result that are not visited, normalized
NewLinks(r, visited) ==
    LET internal == SelectSeq(r.links, LAMBDA l : l.internal)
        norm == [i \in 1..Len(internal) |-> normalizeUrl(internal[i].url)]
    IN SelectSeq(norm, LAMBDA u : u \notin visited)

\* the responses to the second fetch of a page: the documents have a text
\* (the loop reads only success and links of this result) and their anchors
\* point into the crawled site or to the other site
LinkResponses ==
    { resp \in Responses :
        /\ resp.html.kind = "doc" => resp.html.text
        /\ \A i \in 1..Len(resp.html.links) : resp.html.links[i] # LookalikeUrl }

\* the second fetch of the page completes with one of the given responses:
\* its internal links go to the next level
LinkFetch(responses) ==
    /\ crawlPc = "linkFetch"
    /\ \E resp \in responses :
          LET r == Crawl(rec.results[rec.k].url, resp)
          IN rec' = [rec EXCEPT
                       !.nextLevelUrls = IF r.success
                                         THEN AddAll(rec.nextLevelUrls,
                                                     NewLinks(r, rec.visited))
                                         ELSE rec.nextLevelUrls,
                       !.k = rec.k + 1]
    /\ crawlPc' = "links"
    /\ UNCHANGED <<req, bat, hist, lastCrawl>>
    /\ UNCHANGED nonCrawlVars

LinkFetchComplete == LinkFetch(LinkResponses)

\* the same with anchors to any host, the one whose name begins with the name
\* of the crawled site included
LinkFetchAnyHost == LinkFetch(Responses)

\* the delay between two depth levels is over
LevelDelayElapsed ==
    /\ crawlPc = "levelDelay"
    /\ crawlPc' = "level"
    /\ UNCHANGED <<req, rec, bat, hist, lastCrawl>>
    /\ UNCHANGED nonCrawlVars

\* one call of crawl with its render response
CrawlOnce ==
    /\ crawlPc = "crawl"
    /\ lastCrawl' = [lastCrawl EXCEPT !.result = Crawl(req.urls[1], lastCrawl.resp)]
    /\ crawlPc' = "returned"
    /\ UNCHANGED <<req, rec, bat, hist>>
    /\ UNCHANGED nonCrawlVars

(***************************************************************************)
(* createEmbeddingsBatch.  A text is a letter; the provider's vector for a *)
(* text is [dim, of |-> <<text>>], the all-zero vector [dim, of |-> <<>>]. *)
(* A batch request is answered by a rejection (also: an answer without     *)
(* data, whose .map throws inside the try) or by the vectors of the first  *)
(* k texts; an individual request by a rejection, by an answer with an     *)
(* empty data list (data[0].embedding throws inside the try), or by the    *)
(* vector.                                                                 *)
(***************************************************************************)
TextLetters == {"a", "b"}
MaxTexts == 5
\* new Array(1024).fill(0)
EmbeddingDim == 1024
\* maxRetries of the batch request
EmbedMaxRetries == 1

VectorOf(text) == [dim |-> EmbeddingDim, of |-> <<text>>]
ZeroVector == [dim |-> EmbeddingDim, of |-> <<>>]

TextLists == UNION { [1..k -> TextLetters] : k \in 0..MaxTexts }

IdleEmbed ==
    [pc |-> "idle", texts |-> <<>>, client |-> FALSE, retry |-> 0, i |-> 0,
     embeddings |-> <<>>, requests |-> <<>>, answers |-> <<>>, batchFailed |-> FALSE,
     out |-> <<>>, validEmbeddings |-> <<>>, singles |-> <<>>, batchData |-> <<>>]

EmbedIdle == emb = IdleEmbed

\* the guards before the first request
EmbedEnter ==
    /\ emb.pc = "call"
    /\ emb' = IF emb.texts = <<>>
              THEN [emb EXCEPT !.pc = "returned", !.out = <<>>]
              ELSE IF ~emb.client
                   THEN [emb EXCEPT !.pc = "returned",
                                    !.out = [k \in 1..Len(emb.texts) |-> ZeroVector]]
                   ELSE [emb EXCEPT !.pc = "batch"]
    /\ UNCHANGED nonEmbedVars

\* response.data of a batch request that resolves: one item per text, or fewer
BatchData(texts) == { [k \in 1..n |-> VectorOf(texts[k])] : n \in 0..Len(texts) }

\* the batch request; what it resolves with is returned as it is
BatchRequest ==
    /\ emb.pc = "batch"
    /\ \/ \E data \in BatchData(emb.texts) :
             emb' = [emb EXCEPT !.pc = "returned",
                                !.requests = Append(emb.requests, emb.texts),
                                !.out = data]
       \/ emb' = IF emb.retry < EmbedMaxRetries - 1
                 THEN [emb EXCEPT !.retry = emb.retry + 1,
                                  !.requests = Append(emb.requests, emb.texts)]
                 ELSE [emb EXCEPT !.pc = "each", !.i = 0, !.embeddings = <<>>,
                                  !.batchFailed = TRUE,
                                  !.requests = Append(emb.requests, emb.texts)]
    /\ UNCHANGED nonEmbedVars

IndividualOutcomes == {"vector", "throws", "nodata"}

\* variant: a text whose request failed gets no entry
PushEmbeddingSkip(embeddings, text, outcome) ==
    IF outcome = "vector" THEN Append(embeddings, VectorOf(text)) ELSE embeddings

\* embeddings.push(...) of the try and of the catch
PushEmbedding(embeddings, text, outcome) ==
    Append(embeddings, IF outcome = "vector" THEN VectorOf(text) ELSE ZeroVector)

\* one round of the fallback loop
IndividualRequest ==
    /\ emb.pc = "each"
    /\ LET text == emb.texts[emb.i + 1]
           last == emb.i + 1 = Len(emb.texts)
       IN \E outcome \in IndividualOutcomes :
             LET pushed == PushEmbedding(emb.embeddings, text, outcome)
             IN emb' = [emb EXCEPT !.i = emb.i + 1,
                                   !.embeddings = pushed,
                                   !.requests = Append(emb.requests, <<text>>),
                                   !.answers = Append(emb.answers, outcome),
                                   !.pc = IF last THEN "returned" ELSE "each",
                                   !.out = IF last THEN pushed ELSE <<>>]
    /\ UNCHANGED nonEmbedVars

(***************************************************************************)
(* One batch of addCodeExamplesToSupabase from the embeddings of its texts *)
(* to its batchData.  emb.texts are the combined texts of the batch (code  *)
(* and summary of each item), emb.out what createEmbeddingsBatch returned. *)
(* singles is history: the calls of createEmbedding, each with the         *)
(* position it was made for, its text and its result.                      *)
(***************************************************************************)
\* createEmbedding: createEmbeddingsBatch([text]) and its first entry, or zeros
CreateEmbeddingResults(text, client) ==
    IF client THEN {VectorOf(text), ZeroVector} ELSE {ZeroVector}

\* variant: the text of the first item of the batch is embedded again
ReembedIndexFirst(validEmbeddings) == 1

\* batchTexts[validEmbeddings.length], 1-based
ReembedIndex(validEmbeddings) == Len(validEmbeddings) + 1

\* one round of the loop over embeddings
ValidateEmbedding ==
    /\ emb.pc = "returned"
    /\ Len(emb.validEmbeddings) < Len(emb.out)
    /\ LET j == Len(emb.validEmbeddings) + 1
           embedding == emb.out[j]
       IN IF embedding # ZeroVector
          THEN emb' = [emb EXCEPT !.validEmbeddings = Append(emb.validEmbeddings, embedding)]
          ELSE LET text == emb.texts[ReembedIndex(emb.validEmbeddings)]
               IN \E singleEmbedding \in CreateEmbeddingResults(text, emb.client) :
                     emb' = [emb EXCEPT
                               !.validEmbeddings = Append(emb.validEmbeddings, singleEmbedding),
                               !.singles = Append(emb.singles,
                                                  [j |-> j, text |-> text,
                                                   result |-> singleEmbedding])]
    /\ UNCHANGED nonEmbedVars

\* batchData: one record for each entry of validEmbeddings
PrepareBatchData ==
    /\ emb.pc = "returned"
    /\ Len(emb.validEmbeddings) = Len(emb.out)
    /\ emb' = [emb EXCEPT
                 !.pc = "batchData",
                 !.batchData = [j \in 1..Len(emb.validEmbeddings) |->
                                  [idx |-> j, content |-> emb.texts[j],
                                   embedding |-> emb.validEmbeddings[j]]]]
    /\ UNCHANGED nonEmbedVars

(***************************************************************************)
(* The merge of perform_rag_query, loop by loop as its handler has it.  An *)
(* accumulator holds combinedResults and seenIds; i is the position of the *)
(* loop in its list.                                                       *)
(***************************************************************************)
RECURSIVE RagBoth(_, _, _, _)
\* for (const kr of keywordResults): the inner loop stops at the first vector
\* result with the id, boosts it and pushes it
RagBoth(kw, vec, i, acc) ==
    IF i > Len(kw) THEN acc
    ELSE LET id == kw[i].id
             vectorIds == { vec[k].id : k \in { x \in 1..Len(vec) : vec[x].id # 0 } }
             at == { k \in 1..Len(vec) : vec[k].id = id }
         IN IF id \in vectorIds /\ id \notin acc.seenIds /\ at # {}
            THEN LET k == CHOOSE x \in at : \A y \in at : x <= y
                     sim == IF (vec[k].similarity * 12) \div 10 < 1000
                            THEN (vec[k].similarity * 12) \div 10 ELSE 1000
                 IN RagBoth(kw, vec, i + 1,
                            [combinedResults |->
                                acc.combinedResults \o <<[vec[k] EXCEPT !.similarity = sim]>>,
                             seenIds |-> acc.seenIds \cup {id}])
            ELSE RagBoth(kw, vec, i + 1, acc)

RECURSIVE RagVector(_, _, _, _)
\* for (const vr of vectorResults)
RagVector(vec, n, i, acc) ==
    IF i > Len(vec) THEN acc
    ELSE IF vec[i].id # 0 /\ vec[i].id \notin acc.seenIds /\ Len(acc.combinedResults) < n
         THEN RagVector(vec, n, i + 1,
                        [combinedResults |-> acc.combinedResults \o <<vec[i]>>,
                         seenIds |-> acc.seenIds \cup {vec[i].id}])
         ELSE RagVector(vec, n, i + 1, acc)

RECURSIVE RagKeyword(_, _, _, _)
\* the second loop over keywordResults: similarity 0.5
RagKeyword(kw, n, i, acc) ==
    IF i > Len(kw) THEN acc
    ELSE IF kw[i].id \notin acc.seenIds /\ Len(acc.combinedResults) < n
         THEN RagKeyword(kw, n, i + 1,
                         [combinedResults |->
                             acc.combinedResults
                                \o <<[id |-> kw[i].id, similarity |-> 500,
                                      rerank_score |-> <<>>]>>,
                          seenIds |-> acc.seenIds \cup {kw[i].id}])
         ELSE RagKeyword(kw, n, i + 1, acc)

\* variant: without the loop over the hits of both searches
RagCombineNoBoth(vec, kw, n) ==
    LET a2 == RagVector(vec, n, 1, [combinedResults |-> <<>>, seenIds |-> {}])
        a3 == RagKeyword(kw, n, 1, a2)
    IN SubSeq(a3.combinedResults, 1, Min2(n, Len(a3.combinedResults)))

\* combinedResults.slice(0, match_count) after the three loops
RagCombine(vec, kw, n) ==
    LET a1 == RagBoth(kw, vec, 1, [combinedResults |-> <<>>, seenIds |-> {}])
        a2 == RagVector(vec, n, 1, a1)
        a3 == RagKeyword(kw, n, 1, a2)
    IN SubSeq(a3.combinedResults, 1, Min2(n, Len(a3.combinedResults)))

\* perform_rag_query's step 3 on the hits the search tool of the code examples
\* was given
RagMerge ==
    /\ ~rag.combined
    /\ useHybridSearch
    /\ rag' = [rag EXCEPT !.combined = TRUE,
                          !.results = RagCombine(VectorHits, KeywordHits, match_count)]
    /\ UNCHANGED <<searchVars, chunkVars, storeVars, ingestVars, crawlVars, embedVars,
                   smartVars, ctxVars>>

(***************************************************************************)
(* The search tool's handler.                                              *)
(***************************************************************************)
SearchInputs(ids, maxMatch, maxKw) ==
    /\ match_count \in 1..maxMatch
    /\ useHybridSearch \in BOOLEAN
    /\ vectorRanking \in Rankings(ids)
    /\ keywordMatches \in KeywordLists(ids, maxKw)
    /\ keywordError \in BOOLEAN
    /\ keywordError => keywordMatches = <<>>
    /\ results = <<>>
    /\ merged = <<>>
    /\ rerankOutcome = "none"
    /\ rerankingApplied = FALSE

SearchIdle ==
    /\ pc = "idle"
    /\ match_count = 1
    /\ useHybridSearch = FALSE
    /\ useReranking = FALSE
    /\ vectorRanking = <<>>
    /\ keywordMatches = <<>>
    /\ keywordError = FALSE
    /\ results = <<>>
    /\ merged = <<>>
    /\ rerankOutcome = "none"
    /\ rerankingApplied = FALSE

ChunkIdle ==
    /\ chunkPc = "idle"
    /\ markdown = <<>>
    /\ maxChunkSize = 0
    /\ chunks = <<>>
    /\ envelope = NoEnvelope

\* hybrid mode: steps 1 to 3 of the handler
HybridSearch ==
    /\ pc = "start"
    /\ useHybridSearch
    /\ results' = Combine(VectorHits, KeywordHits, match_count)
    /\ merged' = results'
    /\ pc' = "searched"
    /\ UNCHANGED <<match_count, useHybridSearch, useReranking, vectorRanking,
                   keywordMatches, keywordError, rerankOutcome, rerankingApplied>>
    /\ UNCHANGED nonSearchVars

\* vector mode: the RPC's rows as they come
VectorOnlySearch ==
    /\ pc = "start"
    /\ ~useHybridSearch
    /\ results' = VectorSearch(match_count)
    /\ merged' = results'
    /\ pc' = "searched"
    /\ UNCHANGED <<match_count, useHybridSearch, useReranking, vectorRanking,
                   keywordMatches, keywordError, rerankOutcome, rerankingApplied>>
    /\ UNCHANGED nonSearchVars

\* `if (useReranking && results.length > 0)`: the call returns, so the flag is set
Rerank ==
    /\ pc = "searched"
    /\ useReranking /\ Len(results) > 0
    /\ \E outcome \in RerankOutcomes(Len(results)) :
          /\ results' = RerankAndMergeResults(results, outcome)
          /\ rerankOutcome' = IF outcome.throws THEN "failed" ELSE "ok"
    /\ rerankingApplied' = TRUE
    /\ pc' = "done"
    /\ UNCHANGED <<match_count, useHybridSearch, useReranking, vectorRanking,
                   keywordMatches, keywordError, merged>>
    /\ UNCHANGED nonSearchVars

NoRerank ==
    /\ pc = "searched"
    /\ ~(useReranking /\ Len(results) > 0)
    /\ pc' = "done"
    /\ UNCHANGED <<match_count, useHybridSearch, useReranking, vectorRanking,
                   keywordMatches, keywordError, results, merged, rerankOutcome,
                   rerankingApplied>>
    /\ UNCHANGED nonSearchVars

Init ==
    /\ pc = "start"
    /\ useReranking \in BOOLEAN
    /\ SearchInputs(1..MaxId, MaxMatch, MaxKw)
    /\ ChunkIdle
    /\ StoreIdle
    /\ IngestIdle
    /\ EmbedIdle
    /\ SmartIdle
    /\ RagIdle
    /\ CtxIdle
    /\ CrawlIdle

Next == HybridSearch \/ VectorOnlySearch \/ Rerank \/ NoRerank

Spec == Init /\ [][Next]_vars

\* the merge alone, at the size of the documented scenario
InitMerge ==
    /\ pc = "start"
    /\ useReranking = FALSE
    /\ SearchInputs(1..MergeMaxId, MergeMaxMatch, MergeMaxKw)
    /\ ChunkIdle
    /\ StoreIdle
    /\ IngestIdle
    /\ EmbedIdle
    /\ SmartIdle
    /\ RagIdle
    /\ CtxIdle
    /\ CrawlIdle

NextMerge == HybridSearch \/ VectorOnlySearch \/ NoRerank

SpecMerge == InitMerge /\ [][NextMerge]_vars

\* the chunker on every short text
InitChunk ==
    /\ SearchIdle
    /\ chunkPc = "input"
    /\ markdown \in Texts(MaxLen)
    /\ maxChunkSize \in 0..MaxChunkSize
    /\ chunks = <<>>
    /\ envelope = NoEnvelope
    /\ StoreIdle
    /\ IngestIdle
    /\ EmbedIdle
    /\ SmartIdle
    /\ RagIdle
    /\ CtxIdle
    /\ CrawlIdle

NextChunk == ChunkContent

SpecChunk == InitChunk /\ [][NextChunk]_vars

LinesOf(m) == SplitLines(m)

NoLongLine(m, n) == \A i \in 1..Len(LinesOf(m)) : Len(LinesOf(m)[i]) <= n

\* the scenario: a text of ScenLen characters, no line above ScenChunkSize
InitScenario ==
    /\ SearchIdle
    /\ chunkPc = "input"
    /\ markdown \in [1..ScenLen -> {"a", SP, NL}]
    /\ NoLongLine(markdown, ScenChunkSize)
    /\ maxChunkSize = ScenChunkSize
    /\ chunks = <<>>
    /\ envelope = NoEnvelope
    /\ StoreIdle
    /\ IngestIdle
    /\ EmbedIdle
    /\ SmartIdle
    /\ RagIdle
    /\ CtxIdle
    /\ CrawlIdle

SpecScenario == InitScenario /\ [][NextChunk]_vars

(***************************************************************************)
(* Properties of the search tools.                                         *)
(***************************************************************************)
Searched == pc \in {"searched", "done"}

BothIds == IdsOf(VectorHits) \cap IdsOf(KeywordHits)

\* the ids of a hit list, in its order, restricted to a set of ids
IdsIn(s, S) == LET t == SelectSeq(s, LAMBDA r : r.id \in S) IN [i \in 1..Len(t) |-> t[i].id]

ResultIds == [i \in 1..Len(results) |-> results[i].id]

\* the similarity the vector search gave this id
OriginalSimilarity(id) == FirstWithId(VectorHits, id).similarity

\* C1: the list a search returns (hybrid or vector mode, reranked or not) never
\* has more than match_count entries.
C1_AtMostMatchCount == Searched => Len(results) <= match_count

\* C1 witness: a finished, reranked hybrid search in which more ids were found
\* by both searches than match_count allows.
C1_Witness ==
    /\ pc = "done" /\ useHybridSearch /\ rerankOutcome = "ok"
    /\ Cardinality(BothIds) > match_count
    /\ Len(results) = match_count

\* C2: no id appears twice in the list a search returns.
C2_NoDuplicateIds ==
    Searched => \A i, j \in 1..Len(results) : i # j => results[i].id # results[j].id

\* C2 witness: a finished hybrid search whose result holds an id found by both
\* searches, a vector-only id and a keyword-only id.
C2_Witness ==
    /\ pc = "done" /\ useHybridSearch
    /\ \E b \in BothIds : b \in IdsOf(results)
    /\ \E v \in IdsOf(VectorHits) \ IdsOf(KeywordHits) : v \in IdsOf(results)
    /\ \E k \in IdsOf(KeywordHits) \ IdsOf(VectorHits) : k \in IdsOf(results)

\* C3: in the merged result an item found by both searches has similarity
\* min(1.0, original * 1.2), the boost applied once; a vector-only item keeps the
\* similarity the vector search gave it.
C3_BoostOnce ==
    (pc = "searched" /\ useHybridSearch) =>
        \A i \in 1..Len(results) :
            LET id == results[i].id
                sim == results[i].similarity
            IN /\ id \in BothIds =>
                    IF OriginalSimilarity(id) * BoostNum >= SimOne * BoostDen
                    THEN sim = SimOne
                    ELSE sim * BoostDen = OriginalSimilarity(id) * BoostNum
               /\ id \in IdsOf(VectorHits) \ IdsOf(KeywordHits) =>
                    sim = OriginalSimilarity(id)

\* C3 witness: a merged result with a boosted item capped at 1.0, a boosted item
\* below the cap and an unboosted vector-only item.
C3_Witness ==
    /\ pc = "searched" /\ useHybridSearch
    /\ \E i \in 1..Len(results) :
          results[i].id \in BothIds /\ OriginalSimilarity(results[i].id) = 900
    /\ \E i \in 1..Len(results) :
          results[i].id \in BothIds /\ OriginalSimilarity(results[i].id) = 500
    /\ \E i \in 1..Len(results) :
          results[i].id \in IdsOf(VectorHits) \ IdsOf(KeywordHits)

VectorOnlyIds == IdsIn(VectorHits, IdsOf(VectorHits) \ IdsOf(KeywordHits))
KeywordOnlyIds == IdsIn(KeywordHits, IdsOf(KeywordHits) \ IdsOf(VectorHits))

KeywordOnlyHaveDefault ==
    \A i \in 1..Len(results) :
        results[i].id \in IdsOf(KeywordHits) \ IdsOf(VectorHits)
            => results[i].similarity = KeywordSim

\* the documented example: match_count 5, 4 vector hits, 3 keyword hits, 2 shared
IsScenario ==
    /\ match_count = 5
    /\ Len(VectorHits) = 4
    /\ Len(KeywordHits) = 3
    /\ Cardinality(BothIds) = 2

ScenarioResult ==
    /\ Len(results) = 5
    /\ {results[1].id, results[2].id} = BothIds
    /\ <<results[3].id, results[4].id>> = VectorOnlyIds
    /\ <<results[5].id>> = KeywordOnlyIds
    /\ results[5].similarity = KeywordSim

\* C4 as stated: the result is every item found by both searches, then the
\* vector-only hits in vector order, then the keyword-only hits (similarity 0.5),
\* the last two groups filling up to match_count.
C4_Original ==
    (pc = "searched" /\ useHybridSearch) =>
        LET nb == Cardinality(BothIds)
            rest == IF match_count > nb THEN match_count - nb ELSE 0
        IN /\ Len(results) >= nb
           /\ { results[i].id : i \in 1..nb } = BothIds
           /\ SubSeq(ResultIds, nb + 1, Len(results))
                  = Take(VectorOnlyIds \o KeywordOnlyIds, rest)
           /\ KeywordOnlyHaveDefault

\* C4 amended: the result is the items found by both searches, cut to
\* match_count entries, then the vector-only hits in vector order, then the
\* keyword-only hits (similarity 0.5), filling up to match_count; in the
\* documented example it is the 2 shared, the 2 vector-only, the 1 keyword-only.
C4_ThreeGroups ==
    (pc = "searched" /\ useHybridSearch) =>
        LET nb == Min2(Cardinality(BothIds), match_count)
        IN /\ Len(results) >= nb
           /\ { results[i].id : i \in 1..nb } \subseteq BothIds
           /\ Cardinality({ results[i].id : i \in 1..nb }) = nb
           /\ SubSeq(ResultIds, nb + 1, Len(results))
                  = Take(VectorOnlyIds \o KeywordOnlyIds, match_count - nb)
           /\ KeywordOnlyHaveDefault
           /\ IsScenario => ScenarioResult

\* C4 witness: the documented example, merged.
C4_Witness == pc = "searched" /\ useHybridSearch /\ IsScenario /\ ScenarioResult

\* C5 as stated: after a failed rerank call the tool returns the merged list in
\* its order, without rerank scores, and reports reranking_applied = false.
C5_FailureReported ==
    (pc = "done" /\ rerankOutcome = "failed") =>
        /\ results = merged
        /\ \A i \in 1..Len(results) : results[i].rerank_score = <<>>
        /\ rerankingApplied = FALSE

StripScore(r) == [id |-> r.id, similarity |-> r.similarity]

Occurrences(s, x) == Cardinality({ i \in 1..Len(s) : StripScore(s[i]) = x })

\* C6: after a successful rerank call the list is a permutation of the list
\* before it (same items, same count) in non-increasing order of rerank score, an
\* unscored item counting as 0.
C6_SortedPermutation ==
    (pc = "done" /\ rerankOutcome = "ok") =>
        /\ Len(results) = Len(merged)
        /\ \A i \in 1..Len(merged) :
              Occurrences(results, StripScore(merged[i]))
                  = Occurrences(merged, StripScore(merged[i]))
        /\ \A i \in 1..(Len(results) - 1) :
              RerankKey(results[i]) >= RerankKey(results[i + 1])

\* C6 witness: a rerank that scored only some of three documents and moved the
\* last one to the front.
C6_Witness ==
    /\ pc = "done" /\ rerankOutcome = "ok"
    /\ Len(results) = 3
    /\ \E i \in 1..3 : results[i].rerank_score = <<>>
    /\ results[1].id = merged[3].id

(***************************************************************************)
(* Properties of the chunker.                                              *)
(***************************************************************************)
NonBlankLines(m) == SelectSeq(SplitLines(m), LAMBDA l : Trim(l) # <<>>)

RECURSIVE ChunkLines(_)
\* the non-blank lines of the chunks, chunk after chunk
ChunkLines(cs) ==
    IF cs = <<>> THEN <<>> ELSE NonBlankLines(Head(cs)) \o ChunkLines(Tail(cs))

RECURSIVE Concat(_)
Concat(cs) == IF cs = <<>> THEN <<>> ELSE Head(cs) \o Concat(Tail(cs))

StripWs(s) == SelectSeq(s, LAMBDA c : ~IsWs(c))

C8_SizeBound ==
    chunkPc = "chunked" =>
        \A i \in 1..Len(chunks) :
            \/ Len(chunks[i]) <= maxChunkSize
            \/ \A k \in 1..Len(chunks[i]) : chunks[i][k] # NL

\* C8 witness: a text that begins with a blank line, then a line longer than
\* maxChunkSize (a chunk of its own), then a chunk within the limit.
C8_Witness ==
    /\ chunkPc = "chunked"
    /\ maxChunkSize >= 1
    /\ Len(markdown) >= 1 /\ markdown[1] = NL
    /\ Len(chunks) = 2
    /\ Len(chunks[1]) > maxChunkSize
    /\ Len(chunks[2]) <= maxChunkSize

NoBlankLine(m) == \A i \in 1..Len(LinesOf(m)) : Trim(LinesOf(m)[i]) # <<>>

\* C9 as stated, for the texts most favourable to it (no blank line, so that all
\* of the text is content): in the scenario the chunker gives exactly 3 chunks
\* and the envelope reports chunks_stored = 3.
C9_Original ==
    (chunkPc = "chunked" /\ NoBlankLine(markdown)) =>
        /\ Len(chunks) = 3
        /\ envelope.success => envelope.chunks_stored = 3

\* C9 amended: in the scenario the success envelope reports the number of chunks
\* the chunker produced, and when no line of the text is blank that number n
\* satisfies n * (chunk_size + 1) >= length + 1 (at least 3 chunks for 2,500
\* characters and chunk_size 1000; 4 and 5 chunks occur).
C9_ChunksStored ==
    chunkPc = "chunked" =>
        /\ envelope.success => envelope.chunks_stored = Len(chunks) /\ Len(chunks) > 0
        /\ NoBlankLine(markdown) =>
              Len(chunks) * (maxChunkSize + 1) >= Len(markdown) + 1

\* C9 witness: a scenario text without blank line, stored as 3 chunks.
C9_Witness ==
    /\ chunkPc = "chunked"
    /\ NoBlankLine(markdown)
    /\ Len(markdown) = ScenLen
    /\ envelope.success /\ envelope.chunks_stored = 3

\* ingestion calls of crawl_single_page, one after the other
InitReingest ==
    /\ SearchIdle
    /\ ChunkIdle
    /\ crawled_pages = EmptyBag
    /\ calls = [c \in Callers |-> IdleCall]
    /\ started = MaxCalls - 2
    /\ IngestIdle
    /\ EmbedIdle
    /\ SmartIdle
    /\ RagIdle
    /\ CtxIdle
    /\ CrawlIdle

\* one caller, one URL ingested and ingested again: the last two calls of a run
\* whose earlier calls stored nothing
NextReingest ==
    \E c \in {"c1"} :
        \/ StartCrawlSinglePage(c, TRUE, {"u1"})
        \/ BulkDelete(c)
        \/ DeleteEach(c)
        \/ InsertBatch(c)
        \/ InsertEach(c)
        \/ Return(c)

SpecReingest == InitReingest /\ [][NextReingest]_vars

\* the steps of one caller's tool call
ToolStep(c, urls, versions) ==
    \/ StartTool(c, urls, versions)
    \/ UpdateSource(c)
    \/ InsertSource(c)
    \/ CallAddDocuments(c)
    \/ BulkDelete(c)
    \/ DeleteEach(c)
    \/ InsertBatch(c)
    \/ InsertEach(c)
    \/ DocumentsReturn(c)
    \/ CodeDelete(c)
    \/ CodeInsertBatch(c)
    \/ CodeInsertEach(c)
    \/ CodeReturn(c)
    \/ Answer(c)

\* one tool call on the pages of two sources, the tables empty: the last call of
\* a run whose earlier calls stored nothing
InitTools ==
    /\ SearchIdle
    /\ ChunkIdle
    /\ crawled_pages = EmptyBag
    /\ calls = [c \in Callers |-> IdleCall]
    /\ started = MaxCalls - 1
    /\ IngestIdle
    /\ EmbedIdle
    /\ SmartIdle
    /\ RagIdle
    /\ CtxIdle
    /\ CrawlIdle

NextTools == \E c \in {"c1"} : ToolStep(c, {"u1", "u3"}, {"A"})

SpecTools == InitTools /\ [][NextTools]_vars

\* the source upserts of the tool calls of two callers, their requests
\* interleaving in every way; c1 ingests content A, c2 content B
InitSources ==
    /\ SearchIdle
    /\ ChunkIdle
    /\ crawled_pages = EmptyBag
    /\ calls = [c \in Callers |-> IdleCall]
    /\ started = MaxCalls - 2
    /\ IngestIdle
    /\ EmbedIdle
    /\ SmartIdle
    /\ RagIdle
    /\ CtxIdle
    /\ CrawlIdle

NextSources ==
    \E c \in Callers :
        \/ StartTool(c, {"u1", "u4"}, {IF c = "c1" THEN "A" ELSE "B"})
        \/ UpdateSource(c)
        \/ InsertSource(c)

SpecSources == InitSources /\ [][NextSources]_vars

\* one call of crawl: every URL, every response of the render collaborator
InitCrawlOne ==
    /\ SearchIdle
    /\ ChunkIdle
    /\ StoreIdle
    /\ IngestIdle
    /\ EmbedIdle
    /\ SmartIdle
    /\ RagIdle
    /\ CtxIdle
    /\ crawlPc = "crawl"
    /\ \E url \in CrawlUrls : req = [NoReq EXCEPT !.mode = "crawl", !.urls = <<url>>]
    /\ rec = IdleRec
    /\ bat = IdleBat
    /\ hist = NoHist
    /\ \E resp \in Responses : lastCrawl = [NoCrawl EXCEPT !.resp = resp]

SpecCrawlOne == InitCrawlOne /\ [][CrawlOnce]_vars

\* the URL lists given to the crawler: 1..MaxUrls URLs out of one page with and
\* without a fragment and a second page
UrlLists ==
    UNION { [1..k -> { u \in SiteUrls : u.path = "/" \/ (u.path = "/p" /\ u.frag = "") }] :
              k \in 1..MaxUrls }

\* one top-level call of crawlBatch or of crawlRecursiveInternalLinks
InitCrawler ==
    /\ SearchIdle
    /\ ChunkIdle
    /\ StoreIdle
    /\ IngestIdle
    /\ EmbedIdle
    /\ SmartIdle
    /\ RagIdle
    /\ CtxIdle
    /\ crawlPc = "start"
    /\ \E mode \in {"batch", "recursive"}, urls \in UrlLists,
          maxDepth \in 1..MaxDepth, maxConcurrent \in 1..MaxConcurrent :
          req = [mode |-> mode, urls |-> urls, maxDepth |-> maxDepth,
                 maxConcurrent |-> maxConcurrent, output |-> <<>>]
    /\ rec = IdleRec
    /\ bat = IdleBat
    /\ hist = NoHist
    /\ lastCrawl = NoCrawl

NextCrawler ==
    \/ CallCrawler
    \/ LevelStart
    \/ Launch
    \/ FetchComplete
    \/ WindowDone
    \/ DelayElapsed
    \/ LinkStep
    \/ LinkFetchComplete
    \/ LevelDelayElapsed

SpecCrawler == InitCrawler /\ [][NextCrawler]_vars

\* one call of crawlRecursiveInternalLinks with one or two seeds, the pages
\* linking to any host
InitLinks ==
    /\ SearchIdle
    /\ ChunkIdle
    /\ StoreIdle
    /\ IngestIdle
    /\ EmbedIdle
    /\ SmartIdle
    /\ RagIdle
    /\ CtxIdle
    /\ crawlPc = "start"
    /\ \E urls \in { l \in UrlLists : Len(l) < MaxUrls },
          maxDepth \in 1..MaxDepth, maxConcurrent \in 1..MaxConcurrent :
          req = [mode |-> "recursive", urls |-> urls, maxDepth |-> maxDepth,
                 maxConcurrent |-> maxConcurrent, output |-> <<>>]
    /\ rec = IdleRec
    /\ bat = IdleBat
    /\ hist = NoHist
    /\ lastCrawl = NoCrawl

NextLinks ==
    \/ CallCrawler
    \/ LevelStart
    \/ Launch
    \/ FetchComplete
    \/ WindowDone
    \/ DelayElapsed
    \/ LinkStep
    \/ LinkFetchAnyHost
    \/ LevelDelayElapsed

SpecLinks == InitLinks /\ [][NextLinks]_vars

\* every fetch completes and every timer fires
SpecCrawlerFair == SpecCrawler /\ WF_vars(NextCrawler)

\* one call of createEmbeddingsBatch: every list of texts, with and without a
\* client
InitEmbed ==
    /\ SearchIdle
    /\ ChunkIdle
    /\ StoreIdle
    /\ IngestIdle
    /\ CrawlIdle
    /\ SmartIdle
    /\ RagIdle
    /\ CtxIdle
    /\ \E texts \in TextLists, client \in BOOLEAN :
          emb = [IdleEmbed EXCEPT !.pc = "call", !.texts = texts, !.client = client]

NextEmbed == EmbedEnter \/ BatchRequest \/ IndividualRequest

SpecEmbed == InitEmbed /\ [][NextEmbed]_vars

\* one batch of code examples, shorter than the longest list of texts
InitCodeEmbed ==
    /\ SearchIdle
    /\ ChunkIdle
    /\ StoreIdle
    /\ IngestIdle
    /\ CrawlIdle
    /\ SmartIdle
    /\ RagIdle
    /\ CtxIdle
    /\ \E texts \in { t \in TextLists : Len(t) \in 1..(MaxTexts - 2) }, client \in BOOLEAN :
          emb = [IdleEmbed EXCEPT !.pc = "call", !.texts = texts, !.client = client]

NextCodeEmbed ==
    \/ EmbedEnter
    \/ BatchRequest
    \/ IndividualRequest
    \/ ValidateEmbedding
    \/ PrepareBatchData

SpecCodeEmbed == InitCodeEmbed /\ [][NextCodeEmbed]_vars

\* the crawl results of the batch runs: 1..MaxPages pages of one site, every
\* page with the same number (1..BatchSize) of chunks and of code blocks
BatchPages ==
    { [i \in 1..Len(us) |-> [url |-> us[i], n |-> n, blocks |-> n]] :
        us \in UNION { [1..k -> {"u1", "u2"}] : k \in 1..MaxPages }, n \in 1..BatchSize }

RECURSIVE RunOk(_)
\* the call at its end when every request succeeded
RunOk(call) == IF call.pc = "done" THEN call ELSE RunOk(AfterBulkResolved(call, "ok"))

\* addDocumentsToSupabase called with docs by userId, after a bulk delete that
\* succeeded
AfterDeleteOk(docs, userId) ==
    StartBatch([IdleCall EXCEPT !.docs = docs, !.userId = userId, !.bulkDelete = "ok"], 0)

\* a smart_crawl_url call whose source loop is over (the site's sources row
\* written), the tables otherwise empty: without USE_AGENTIC_RAG about to call
\* addDocumentsToSupabase; with it, addDocumentsToSupabase has just returned from
\* a run in which every request succeeded
InitBatches ==
    /\ SearchIdle
    /\ ChunkIdle
    /\ EmbedIdle
    /\ SmartIdle
    /\ RagIdle
    /\ CtxIdle
    /\ CrawlIdle
    /\ started = MaxCalls
    /\ code_examples = EmptyBag
    /\ codeCalls = [c \in Callers |-> IdleCall]
    /\ \E pages \in BatchPages, userId \in Users, agentic \in BOOLEAN :
          LET docs == DocsOf(pages, "A")
              t == [pc |-> IF agentic THEN "documents" ELSE "addDocuments",
                    tool |-> "smart_crawl_url", pages |-> pages, version |-> "A",
                    userId |-> userId, agentic |-> agentic, srcs |-> SourceKeys(pages),
                    s |-> Len(SourceKeys(pages)), upserts |-> Len(SourceKeys(pages)),
                    answer |-> <<>>]
          IN /\ ingest = [c \in Callers |-> IF c = "c1" THEN t ELSE IdleTool]
             /\ sources = SetToBag({ [source_id |-> SourceKeys(pages)[k], summary |-> "A"] :
                                       k \in 1..Len(SourceKeys(pages)) })
             /\ calls = [c \in Callers |->
                           IF c = "c1" /\ agentic THEN RunOk(AfterDeleteOk(docs, userId))
                           ELSE IdleCall]
             /\ crawled_pages = IF agentic THEN InsertRows(EmptyBag, docs, userId)
                                ELSE EmptyBag

NextBatches ==
    \E c \in {"c1"} :
        \/ CallAddDocuments(c)
        \/ BulkDelete(c)
        \/ DeleteEach(c)
        \/ InsertBatch(c)
        \/ InsertEach(c)
        \/ DocumentsReturn(c)
        \/ CodeDelete(c)
        \/ CodeInsertBatch(c)
        \/ CodeInsertEach(c)
        \/ CodeReturn(c)
        \/ Answer(c)

SpecBatches == InitBatches /\ [][NextBatches]_vars

\* every request is answered
SpecBatchesFair == SpecBatches /\ WF_vars(NextBatches)

(***************************************************************************)
(* smart_crawl_url from its url argument to its answer.  The url argument  *)
(* is a string cut into pieces: "sitemap", ".xml", ".txt", and "x" for any *)
(* other text; includes and endsWith are taken on the pieces.  The target  *)
(* names the page "/" of the site.                                         *)
(***************************************************************************)
UrlTokens == {"sitemap", ".xml", ".txt", "x"}
MaxUrlTokens == 3
TargetUrls == UNION { [1..k -> UrlTokens] : k \in 1..MaxUrlTokens }

\* url.includes(tok), url.endsWith(tok), url.includes(a + b)
Includes(url, tok) == \E i \in 1..Len(url) : url[i] = tok
EndsWith(url, tok) == url # <<>> /\ url[Len(url)] = tok
IncludesPair(url, a, b) == \E i \in 1..(Len(url) - 1) : url[i] = a /\ url[i + 1] = b

isSitemap(url) ==
    Includes(url, "sitemap")
      /\ (EndsWith(url, ".xml") \/ IncludesPair(url, "sitemap", ".xml"))

isTextFile(url) == EndsWith(url, ".txt")

\* variant: the sitemap test comes first
CrawlTypeSitemapFirst(url) ==
    IF isSitemap(url) THEN "sitemap"
    ELSE IF isTextFile(url) THEN "text_file" ELSE "webpage"

\* the if chain that picks the crawl strategy
CrawlType(url) ==
    IF isTextFile(url) THEN "text_file"
    ELSE IF isSitemap(url) THEN "sitemap" ELSE "webpage"

TargetPage == [site |-> "a", path |-> "/", frag |-> ""]

\* the name the ingestion part has for a page of the crawled site
IngestUrl(u) ==
    CASE u.path = "/" -> "a/"
      [] u.path = "/p" -> "a/p"
      [] OTHER -> "a/q"

\* the strategy is picked
Dispatch ==
    /\ smart.pc = "dispatch"
    /\ smart' = [smart EXCEPT !.crawlType = CrawlType(smart.url),
                              !.pc = CrawlType(smart.url)]
    /\ UNCHANGED <<storeVars, ingestVars, crawlVars>>
    /\ UNCHANGED nonSmartVars

\* crawlTextFile: the text whatever the status, or the failed result of the
\* catch
TextFile ==
    /\ smart.pc = "text_file"
    /\ \E outcome \in {"rejects", "text", "empty"} :
          smart' = [smart EXCEPT
                      !.pc = "process",
                      !.crawlResults =
                         <<[url |-> TargetPage,
                            markdown |-> IF outcome = "text" THEN <<"text">> ELSE <<>>,
                            success |-> outcome # "rejects"]>>,
                      !.failed = IF outcome = "rejects" THEN {TargetPage} ELSE {},
                      !.dropped = IF outcome = "rejects" THEN 1 ELSE 0]
    /\ UNCHANGED <<storeVars, ingestVars, crawlVars>>
    /\ UNCHANGED nonSmartVars

\* the lists of <loc> entries parseSitemap returns: none (also after a failed
\* fetch), or one or two, the same URL twice included
LocLists == { l \in UrlLists : Len(l) <= 2 } \cup {<<>>}

\* variant: the sitemap's pages are crawled recursively
SitemapCrawlRecursive(locs, maxDepth, maxConcurrent) ==
    [mode |-> "recursive", urls |-> locs, maxDepth |-> maxDepth,
     maxConcurrent |-> maxConcurrent, output |-> <<>>]

\* crawler.crawlBatch(sitemapUrls, max_concurrent)
SitemapCrawl(locs, maxDepth, maxConcurrent) ==
    [mode |-> "batch", urls |-> locs, maxDepth |-> maxDepth,
     maxConcurrent |-> maxConcurrent, output |-> <<>>]

\* parseSitemap, then the answer for an empty sitemap or the call of crawlBatch
ParseSitemap ==
    /\ smart.pc = "sitemap"
    /\ \E locs \in LocLists, maxDepth \in 1..MaxDepth, maxConcurrent \in 1..MaxConcurrent :
          IF locs = <<>>
          THEN /\ smart' = [smart EXCEPT
                              !.pc = "answered",
                              !.answer = [NoAnswer EXCEPT
                                            !.error = "No URLs found in sitemap"]]
               /\ UNCHANGED crawlVars
          ELSE /\ smart' = [smart EXCEPT !.pc = "crawling", !.locs = locs]
               /\ crawlPc' = "start"
               /\ req' = SitemapCrawl(locs, maxDepth, maxConcurrent)
               /\ UNCHANGED <<rec, bat, hist, lastCrawl>>
    /\ UNCHANGED <<storeVars, ingestVars>>
    /\ UNCHANGED nonSmartVars

\* crawler.crawlRecursiveInternalLinks([url], max_depth, max_concurrent)
Webpage ==
    /\ smart.pc = "webpage"
    /\ \E maxDepth \in 1..MaxDepth, maxConcurrent \in 1..MaxConcurrent :
          req' = [mode |-> "recursive", urls |-> <<TargetPage>>, maxDepth |-> maxDepth,
                  maxConcurrent |-> maxConcurrent, output |-> <<>>]
    /\ crawlPc' = "start"
    /\ smart' = [smart EXCEPT !.pc = "crawling"]
    /\ UNCHANGED <<rec, bat, hist, lastCrawl>>
    /\ UNCHANGED <<storeVars, ingestVars>>
    /\ UNCHANGED nonSmartVars

\* the crawler returned: crawlResults
Collect ==
    /\ smart.pc = "crawling"
    /\ crawlPc = "returned"
    /\ smart' = [smart EXCEPT
                   !.pc = "process",
                   !.crawlResults = [i \in 1..Len(req.output) |->
                                       [url |-> req.output[i].url,
                                        markdown |-> req.output[i].markdown,
                                        success |-> TRUE]],
                   !.failed = BagToSet(hist.fetched)
                                 \ { req.output[i].url : i \in 1..Len(req.output) },
                   !.dropped = BagCardinality(hist.fetched) - Len(req.output)]
    /\ crawlPc' = "idle"
    /\ req' = NoReq
    /\ rec' = IdleRec
    /\ bat' = IdleBat
    /\ hist' = NoHist
    /\ UNCHANGED lastCrawl
    /\ UNCHANGED <<storeVars, ingestVars>>
    /\ UNCHANGED nonSmartVars

\* a crawl result as the chunk loop sees it: its url, the number of chunks of
\* its markdown (smartChunkMarkdown gives none for an empty text)
PageOfResult(r) ==
    [url |-> IngestUrl(r.url), n |-> IF r.markdown = <<>> THEN 0 ELSE 1, blocks |-> 0]

\* no crawl result: the answer; otherwise the chunk loop over crawlResults, which
\* does not look at success, and the head of the source loop
Process(c) ==
    /\ smart.pc = "process"
    /\ IF smart.crawlResults = <<>>
       THEN /\ smart' = [smart EXCEPT
                           !.pc = "answered",
                           !.answer = [NoAnswer EXCEPT !.error = "No content found"]]
            /\ UNCHANGED <<ingest, started>>
       ELSE /\ smart' = [smart EXCEPT !.pc = "ingesting"]
            /\ started' = started + 1
            /\ \E userId \in Users :
                  LET pages == [i \in 1..Len(smart.crawlResults) |->
                                  PageOfResult(smart.crawlResults[i])]
                  IN ingest' = [ingest EXCEPT ![c] =
                                  [pc |-> "source", tool |-> "smart_crawl_url",
                                   pages |-> pages, version |-> "A", userId |-> userId,
                                   agentic |-> FALSE, srcs |-> SourceKeys(pages), s |-> 1,
                                   upserts |-> 0, answer |-> <<>>]]
    /\ UNCHANGED <<crawled_pages, calls, sources, code_examples, codeCalls>>
    /\ UNCHANGED crawlVars
    /\ UNCHANGED nonSmartVars

\* the success answer
SmartAnswer(c) ==
    /\ smart.pc = "ingesting"
    /\ ingest[c].pc = "answer"
    /\ ingest' = [ingest EXCEPT ![c] = IdleTool]
    /\ smart' = [smart EXCEPT
                   !.pc = "answered",
                   !.answer = [success |-> TRUE, crawl_type |-> smart.crawlType,
                               pages_crawled |-> Len(smart.crawlResults), error |-> ""]]
    /\ UNCHANGED <<crawled_pages, calls, started, sources, code_examples, codeCalls>>
    /\ UNCHANGED crawlVars
    /\ UNCHANGED nonSmartVars

\* the strategy picked for every url argument
InitClassify ==
    /\ RagIdle
    /\ CtxIdle
    /\ SearchIdle
    /\ ChunkIdle
    /\ StoreIdle
    /\ IngestIdle
    /\ EmbedIdle
    /\ CrawlIdle
    /\ \E url \in TargetUrls : smart = [IdleSmart EXCEPT !.pc = "dispatch", !.url = url]

SpecClassify == InitClassify /\ [][Dispatch]_vars

\* one call of smart_crawl_url, on a text file, a sitemap or a page, the tables
\* empty
InitSmart ==
    /\ RagIdle
    /\ CtxIdle
    /\ SearchIdle
    /\ ChunkIdle
    /\ crawled_pages = EmptyBag
    /\ calls = [c \in Callers |-> IdleCall]
    /\ started = MaxCalls - 1
    /\ IngestIdle
    /\ EmbedIdle
    /\ CrawlIdle
    /\ \E url \in {<<"x", ".txt">>, <<"sitemap", ".xml">>, <<"x">>} :
          smart = [IdleSmart EXCEPT !.pc = "dispatch", !.url = url]

NextSmart ==
    \/ Dispatch
    \/ TextFile
    \/ ParseSitemap
    \/ Webpage
    \/ NextCrawler
    \/ Collect
    \/ \E c \in {"c1"} :
          \/ Process(c)
          \/ UpdateSource(c)
          \/ InsertSource(c)
          \/ CallAddDocuments(c)
          \/ BulkDelete(c)
          \/ DeleteEach(c)
          \/ InsertBatch(c)
          \/ InsertEach(c)
          \/ DocumentsReturn(c)
          \/ SmartAnswer(c)

SpecSmart == InitSmart /\ [][NextSmart]_vars

(***************************************************************************)
(* crawl_single_page from the result of crawler.crawl(url) to the source   *)
(* upsert, and the two tools over tables that hold an earlier ingestion.   *)
(***************************************************************************)
\* chunks.length for a markdown: none for an empty one
ChunkCounts(md) == IF md = <<>> THEN {0} ELSE 1..MaxPageChunks

\* the failure envelope of crawl_single_page
FailureEnvelope(error) == [success |-> FALSE, error |-> error]

\* crawl_single_page after crawl returned: the answer for a failed crawl and
\* for a content without chunks, otherwise the arrays of the page and the
\* source upsert
SinglePage(c) ==
    /\ crawlPc = "returned"
    /\ req.mode = "crawl"
    /\ ingest[c].pc = "idle"
    /\ ingest[c].answer = <<>>
    /\ LET crawlResult == lastCrawl.result
       IN IF ~crawlResult.success
          THEN /\ ingest' = [ingest EXCEPT ![c].answer =
                                <<FailureEnvelope("Failed to crawl")>>]
               /\ started' = started
          ELSE \E n \in ChunkCounts(crawlResult.markdown), userId \in Users :
                  IF n = 0
                  THEN /\ ingest' = [ingest EXCEPT ![c].answer =
                                        <<FailureEnvelope("No chunks generated from content")>>]
                       /\ started' = started
                  ELSE LET pages == <<[url |-> IngestUrl(crawlResult.url), n |-> n,
                                       blocks |-> 0]>>
                       IN /\ ingest' = [ingest EXCEPT ![c] =
                                          [pc |-> "source", tool |-> "crawl_single_page",
                                           pages |-> pages, version |-> "A",
                                           userId |-> userId, agentic |-> FALSE,
                                           srcs |-> SourceIdsOf("crawl_single_page", pages),
                                           s |-> 1, upserts |-> 0, answer |-> <<>>]]
                          /\ started' = started + 1
    /\ UNCHANGED <<crawled_pages, calls, sources, code_examples, codeCalls>>
    /\ UNCHANGED crawlVars
    /\ UNCHANGED nonSmartVars
    /\ UNCHANGED smart

\* the success answer of crawl_single_page
SinglePageAnswer(c) == ingest[c].tool = "crawl_single_page" /\ Answer(c)

\* the tables before the call: the site was ingested before
SiteSources == SetToBag({[source_id |-> SourceIdOfUrl("a/"), summary |-> "B"]})
SitePages == InsertRows(EmptyBag, PageDocs("a/", "B", 1) \o PageDocs("a/p", "B", 1), NoUser)

\* one call of smart_crawl_url or of crawl_single_page
InitHandlers ==
    /\ RagIdle
    /\ CtxIdle
    /\ SearchIdle
    /\ ChunkIdle
    /\ EmbedIdle
    /\ crawled_pages = SitePages
    /\ sources = SiteSources
    /\ code_examples = EmptyBag
    /\ calls = [c \in Callers |-> IdleCall]
    /\ codeCalls = [c \in Callers |-> IdleCall]
    /\ ingest = [c \in Callers |-> IdleTool]
    /\ started = MaxCalls - 1
    /\ rec = IdleRec
    /\ bat = IdleBat
    /\ hist = NoHist
    /\ \/ /\ \E url \in {<<"x", ".txt">>, <<"sitemap", ".xml">>, <<"x">>} :
                smart = [IdleSmart EXCEPT !.pc = "dispatch", !.url = url]
          /\ crawlPc = "idle"
          /\ req = NoReq
          /\ lastCrawl = NoCrawl
       \/ /\ smart = IdleSmart
          /\ crawlPc = "crawl"
          /\ \E url \in { u \in SiteUrls : u.frag = "" } :
                req = [NoReq EXCEPT !.mode = "crawl", !.urls = <<url>>]
          /\ \E resp \in Responses : lastCrawl = [NoCrawl EXCEPT !.resp = resp]

NextHandlers ==
    \/ Dispatch
    \/ TextFile
    \/ ParseSitemap
    \/ Webpage
    \/ NextCrawler
    \/ Collect
    \/ CrawlOnce
    \/ \E c \in {"c1"} :
          \/ Process(c)
          \/ SinglePage(c)
          \/ UpdateSource(c)
          \/ InsertSource(c)
          \/ CallAddDocuments(c)
          \/ BulkDelete(c)
          \/ DeleteEach(c)
          \/ InsertBatch(c)
          \/ InsertEach(c)
          \/ DocumentsReturn(c)
          \/ SmartAnswer(c)
          \/ SinglePageAnswer(c)

SpecHandlers == InitHandlers /\ [][NextHandlers]_vars

(***************************************************************************)
(* perform_rag_query over a table that holds the rows of several owners:   *)
(* what the store answers to the two searches of the handler, from the     *)
(* filters each of them is given.  A row has its id, its source, its       *)
(* owner, and whether its content contains the query.                      *)
(***************************************************************************)
Owners == {"alice", "bob"}
RagSources == {"a", "b"}
\* the tables: one row for each id
RagTables(ids) ==
    { { [id |-> id, source_id |-> f[id].source_id, user_id |-> f[id].user_id,
         hit |-> f[id].hit] : id \in ids }
      : f \in [ids -> [source_id : RagSources, user_id : Owners, hit : BOOLEAN]] }

\* `if (source && source.trim())`, `if (userId)`
Filtered(arg) == arg # ""

\* searchDocuments: the RPC match_crawled_pages is given the query embedding,
\* the count and the source filter; the seventh argument of the handler's call
\* (userId) has no parameter to go to.  The rows the filter keeps, best first.
searchDocuments(table, source, userId) ==
    LET ids == { r.id : r \in { x \in table : Filtered(source) => x.source_id = source } }
    IN [i \in 1..Cardinality(ids) |-> VectorRow(SortedSeqOf(ids)[i])]

\* the ILIKE query with its two optional eq filters, in the store's order
KeywordQuery(table, source, userId) ==
    LET ids == { r.id : r \in { x \in table :
                                  /\ x.hit
                                  /\ Filtered(source) => x.source_id = source
                                  /\ Filtered(userId) => x.user_id = userId } }
    IN [i \in 1..Cardinality(ids) |-> KeywordRow(SortedSeqOf(ids)[i])]

\* the store answers the searches of the call
SearchStore ==
    /\ pc = "query"
    /\ \E failed \in BOOLEAN :
          /\ keywordError' = failed
          /\ keywordMatches' = IF failed THEN <<>>
                               ELSE KeywordQuery(rag.table, rag.source, rag.userId)
    /\ vectorRanking' = searchDocuments(rag.table, rag.source, rag.userId)
    /\ rag' = [rag EXCEPT
                 !.given = [vector |-> <<rag.source, "">>,
                            keyword |-> <<rag.source, rag.userId>>]]
    /\ pc' = "start"
    /\ UNCHANGED <<match_count, useHybridSearch, useReranking, results, merged,
                   rerankOutcome, rerankingApplied>>
    /\ UNCHANGED <<chunkVars, storeVars, ingestVars, crawlVars, embedVars, smartVars,
                   ctxVars>>

\* one call of perform_rag_query, with and without a source, with and without
\* an owner, on every table
InitRag ==
    /\ CtxIdle
    /\ pc = "query"
    /\ match_count \in 1..2
    /\ useHybridSearch \in BOOLEAN
    /\ useReranking = FALSE
    /\ vectorRanking = <<>>
    /\ keywordMatches = <<>>
    /\ keywordError = FALSE
    /\ results = <<>>
    /\ merged = <<>>
    /\ rerankOutcome = "none"
    /\ rerankingApplied = FALSE
    /\ ChunkIdle
    /\ StoreIdle
    /\ IngestIdle
    /\ EmbedIdle
    /\ SmartIdle
    /\ CrawlIdle
    /\ \E table \in RagTables(1..MaxId), source \in {"", "a"}, userId \in {"", "alice"} :
          rag = [IdleRag EXCEPT !.table = table, !.source = source, !.userId = userId]

NextRag == SearchStore \/ HybridSearch \/ VectorOnlySearch \/ NoRerank

SpecRag == InitRag /\ [][NextRag]_vars

(***************************************************************************)
(* The contextual step of one batch of addDocumentsToSupabase.  A chunk is *)
(* a name; a content is the sequence of its parts: <<chunk>>, or           *)
(* <<context, separator, chunk>>.                                          *)
(***************************************************************************)
ChunkNames == {"k1", "k2"}
Separator == "\n---\n"
BatchContents == UNION { [1..n -> ChunkNames] : n \in 1..BatchSize }

\* generateContextualEmbedding for a chunk with a client: the model answers
\* with a context, with nothing (content empty or null), or the call throws
SituateOutcomes == {"context", "empty", "throws"}
generateContextualEmbedding(chunk, outcome) ==
    CASE outcome = "context" -> [text |-> <<"ctx", Separator, chunk>>, success |-> TRUE]
      [] outcome = "empty" -> [text |-> <<"", Separator, chunk>>, success |-> TRUE]
      [] OTHER -> [text |-> <<chunk>>, success |-> FALSE]

\* the branch on useContextualEmbeddings && openaiClient: the calls are
\* started for all chunks, or the contents are taken as they are
StartContext ==
    /\ ctx.pc = "start"
    /\ ctx' = IF ctx.useContextualEmbeddings /\ ctx.client
              THEN [ctx EXCEPT !.pc = "await",
                               !.pending = 1..Len(ctx.batchContents),
                               !.results = [j \in 1..Len(ctx.batchContents) |-> <<>>]]
              ELSE [ctx EXCEPT !.pc = "embed",
                               !.contextualContents =
                                  [j \in 1..Len(ctx.batchContents) |-> <<ctx.batchContents[j]>>]]
    /\ UNCHANGED nonCtxVars

\* one of the chunks' calls settles
SituateDone ==
    /\ ctx.pc = "await"
    /\ \E j \in ctx.pending, outcome \in SituateOutcomes :
          LET r == generateContextualEmbedding(ctx.batchContents[j], outcome)
          IN ctx' = [ctx EXCEPT !.pending = ctx.pending \ {j},
                                !.results[j] = <<r>>,
                                !.situate = Append(ctx.situate, [j |-> j, answer |-> r])]
    /\ UNCHANGED nonCtxVars

\* variant: every chunk of the batch is marked
ExtractResultMarkAll(result, content, metadata) ==
    [content |-> IF result.success THEN result.text ELSE <<content>>,
     metadata |-> [metadata EXCEPT !.contextualEmbedding = TRUE]]

\* results.map: the text and the mark on success, else the original content
ExtractResult(result, content, metadata) ==
    IF result.success
    THEN [content |-> result.text,
          metadata |-> [metadata EXCEPT !.contextualEmbedding = TRUE]]
    ELSE [content |-> <<content>>, metadata |-> metadata]

\* Promise.all resolved: contextualContents and the marks
ExtractResults ==
    /\ ctx.pc = "await"
    /\ ctx.pending = {}
    /\ LET ex == [j \in 1..Len(ctx.batchContents) |->
                    ExtractResult(ctx.results[j][1], ctx.batchContents[j],
                                  ctx.batchMetadatas[j])]
       IN ctx' = [ctx EXCEPT !.pc = "embed",
                             !.contextualContents = [j \in DOMAIN ex |-> ex[j].content],
                             !.batchMetadatas = [j \in DOMAIN ex |-> ex[j].metadata]]
    /\ UNCHANGED nonCtxVars

\* batchData: content and metadata of every chunk
ContextBatchData ==
    /\ ctx.pc = "embed"
    /\ ctx' = [ctx EXCEPT
                 !.pc = "batchData",
                 !.batchData = [j \in 1..Len(ctx.contextualContents) |->
                                  [chunk_number |-> ctx.batchMetadatas[j].chunk_index,
                                   content |-> ctx.contextualContents[j],
                                   metadata |-> ctx.batchMetadatas[j]]]]
    /\ UNCHANGED nonCtxVars

\* one batch, with and without the option, with and without a model client
InitContext ==
    /\ SearchIdle
    /\ ChunkIdle
    /\ StoreIdle
    /\ IngestIdle
    /\ EmbedIdle
    /\ CrawlIdle
    /\ SmartIdle
    /\ RagIdle
    /\ \E contents \in BatchContents, use \in BOOLEAN, client \in BOOLEAN :
          ctx = [IdleCtx EXCEPT
                   !.pc = "start", !.batchContents = contents,
                   !.useContextualEmbeddings = use, !.client = client,
                   !.batchMetadatas = [j \in 1..Len(contents) |->
                                         [chunk_index |-> j - 1,
                                          contextualEmbedding |-> FALSE]]]

NextContext == StartContext \/ SituateDone \/ ExtractResults \/ ContextBatchData

SpecContext == InitContext /\ [][NextContext]_vars

\* the two merges on the same hits, ids that are falsy included
InitBothMerges ==
    /\ pc = "start"
    /\ useReranking = FALSE
    /\ SearchInputs(0..MaxId, MaxMatch, MaxKw)
    /\ useHybridSearch
    /\ ChunkIdle
    /\ StoreIdle
    /\ IngestIdle
    /\ EmbedIdle
    /\ SmartIdle
    /\ RagIdle
    /\ CtxIdle
    /\ CrawlIdle

NextBothMerges == HybridSearch \/ RagMerge

SpecBothMerges == InitBothMerges /\ [][NextBothMerges]_vars

\* the rows the tables hold before the call: one chunk and one code example
\* of an earlier content, for the URL ingested and for another, of the caller
\* and of another owner
PriorRows ==
    { RowOf([url |-> url, chunk_number |-> 0, content |-> <<"B", 0>>], owner) :
        url \in {"u1", "u2"}, owner \in {"alice", "bob"} }

\* one tool call on pages of "u1" with the tables filled
InitOwners ==
    /\ SearchIdle
    /\ ChunkIdle
    /\ crawled_pages = SetToBag(PriorRows)
    /\ calls = [c \in Callers |-> IdleCall]
    /\ started = MaxCalls - 1
    /\ sources = EmptyBag
    /\ code_examples = SetToBag(PriorRows)
    /\ ingest = [c \in Callers |-> IdleTool]
    /\ codeCalls = [c \in Callers |-> IdleCall]
    /\ EmbedIdle
    /\ SmartIdle
    /\ RagIdle
    /\ CtxIdle
    /\ CrawlIdle

NextOwners == \E c \in {"c1"} : ToolStep(c, {"u1"}, {"A"})

SpecOwners == InitOwners /\ [][NextOwners]_vars

(***************************************************************************)
(* Properties of the store.                                                *)
(***************************************************************************)
RowsOfCall(call) == { RowOf(call.docs[k], call.userId) : k \in 1..Len(call.docs) }

\* C10: when an ingestion of a URL completes without a failed store operation,
\* the crawled_pages rows for that URL (of that owner) are exactly the chunks
\* just ingested, one row per chunk_number 0..k-1: no row of an earlier
\* ingestion of the URL remains.
C10_FullReplacement ==
    \A c \in Callers :
        (calls[c].pc = "done" /\ ~calls[c].failed) =>
            /\ { r \in BagToSet(crawled_pages) : InScope(calls[c], r) } = RowsOfCall(calls[c])
            /\ \A r \in RowsOfCall(calls[c]) : CopiesIn(r, crawled_pages) = 1
            /\ { r.chunk_number : r \in RowsOfCall(calls[c]) } = 0..(Len(calls[c].docs) - 1)

\* C10 witness: a completed re-ingestion of a URL by the owner of an earlier
\* complete ingestion, with different content and fewer chunks.
C10_Witness ==
    \E c \in Callers :
        /\ calls[c].pc = "done" /\ ~calls[c].failed
        /\ Len(calls[c].docs) = 1
        /\ calls[c].docs[1].content[1] = "B"
        /\ { <<r.chunk_number, r.content[1], r.user_id>> : r \in calls[c].prior }
               = { <<k, "A", calls[c].userId>> : k \in 0..(MaxChunks - 1) }

(***************************************************************************)
(* Properties of the ingestion tools.                                      *)
(***************************************************************************)
\* C12: in both ingestion tools every source upsert of the call has completed
\* before the call issues its first delete or insert of chunk rows and of
\* code-example rows: while addDocumentsToSupabase or addCodeExamplesToSupabase
\* runs, updateSourceInfo has returned for every source id of the call.
C12_SourcesFirst ==
    \A c \in Callers :
        (calls[c].pc # "idle" \/ codeCalls[c].pc # "idle") =>
            /\ ingest[c].pc \in {"documents", "code"}
            /\ ingest[c].upserts = Len(ingest[c].srcs)

\* C12 witness: a smart_crawl_url call over pages of two sources inserts its
\* code examples after both upserts, one of which went through update and insert.
C12_Witness ==
    \E c \in Callers :
        /\ ingest[c].tool = "smart_crawl_url"
        /\ Len(ingest[c].srcs) = 2
        /\ codeCalls[c].pc = "insert"
        /\ ingest[c].upserts = 2
        /\ sources # EmptyBag

\* the rows of a table, each copy counted
Copies(b, S) ==
    LET RECURSIVE Add(_)
        Add(T) == IF T = {} THEN 0
                  ELSE LET r == CHOOSE x \in T : TRUE IN b[r] + Add(T \ {r})
    IN Add(S)

\* C11: in every reachable state of the store, after any sequence of ingestion
\* calls, no two crawled_pages rows have the same (url, chunk_number).
C11_UniqueChunkKey ==
    \A r \in BagToSet(crawled_pages) :
        Copies(crawled_pages,
               { q \in BagToSet(crawled_pages) :
                   q.url = r.url /\ q.chunk_number = r.chunk_number }) = 1

\* C13: every crawled_pages row and every code_examples row has a source_id
\* for which a sources row exists.
C13_ParentSourceExists ==
    \A r \in BagToSet(crawled_pages) \cup BagToSet(code_examples) :
        \E src \in BagToSet(sources) : src.source_id = r.source_id

\* C14: after any sequence of updateSourceInfo calls for a source_id, also of
\* two ingestions that interleave, the sources table holds exactly one row
\* with that source_id.
C14_OneRowPerSource ==
    \A c \in Callers :
        ingest[c].pc = "addDocuments" =>
            \A i \in 1..Len(ingest[c].srcs) : Matching(sources, ingest[c].srcs[i]) = 1

(***************************************************************************)
(* Properties of the crawler.                                              *)
(***************************************************************************)
RenderFailed(resp) ==
    resp.kind = "reject" \/ ~resp.ok \/ resp.html.kind \in {"empty", "blank"}

\* C15: crawl(url) never throws: for every failure of the render collaborator
\* (network error, non-OK status, empty HTML body) it returns a result with
\* success = false, a non-empty error, empty markdown and empty links, and
\* success = true is returned only with the HTML that was received.
C15_CrawlNeverThrows ==
    (crawlPc = "returned" /\ req.mode = "crawl") =>
        LET r == lastCrawl.result
            resp == lastCrawl.resp
        IN /\ ~r.threw
           /\ r.url = req.urls[1]
           /\ RenderFailed(resp) =>
                 /\ ~r.success
                 /\ r.error # <<>> /\ r.error[1] # ""
                 /\ r.markdown = <<>> /\ r.links = <<>>
           /\ r.success =>
                 /\ ~RenderFailed(resp)
                 /\ r.html = resp.html

\* C15 witness: crawl has returned a failure for a body of whitespace only.
C15_Witness ==
    /\ crawlPc = "returned" /\ req.mode = "crawl"
    /\ lastCrawl.resp.kind = "status" /\ lastCrawl.resp.ok
    /\ lastCrawl.resp.html.kind = "blank"
    /\ ~lastCrawl.result.success

\* C16: during crawlBatch no fetch of window N+1 starts before every fetch of
\* window N has completed, so at every moment at most maxConcurrent fetches
\* are in flight: the fetches in flight belong to one window.
C16_WindowBarrier ==
    /\ Cardinality(bat.inFlight) <= req.maxConcurrent
    /\ \A p, q \in bat.inFlight :
          (p - 1) \div req.maxConcurrent = (q - 1) \div req.maxConcurrent

\* C16 witness: the second window of a list of three URLs is in flight, after
\* both fetches of the first window completed, one of them failing.
C16_Witness ==
    /\ crawlPc = "await"
    /\ req.maxConcurrent = 2 /\ Len(bat.urls) = 3
    /\ bat.inFlight = {3}
    /\ Len(bat.results) = 1

RECURSIVE UrlsAt(_, _)
\* the urls at the positions S, in the order of the list
UrlsAt(urls, S) ==
    IF urls = <<>> THEN <<>>
    ELSE LET front == UrlsAt(SubSeq(urls, 1, Len(urls) - 1), S)
         IN IF Len(urls) \in S THEN Append(front, urls[Len(urls)]) ELSE front

\* C17: crawlBatch(urls) returns exactly the subsequence of urls whose fetch
\* succeeded with non-empty markdown, in input order, whatever the order in
\* which the fetches of a window complete.
C17_SuccessfulInOrder ==
    (crawlPc = "returned" /\ req.mode = "batch") =>
        /\ [i \in 1..Len(req.output) |-> req.output[i].url] = UrlsAt(req.urls, hist.good)
        /\ \A i \in 1..Len(req.output) : req.output[i].markdown # <<>>

\* C17 witness: of three URLs the second failed and the other two, the same
\* URL twice, are returned.
C17_Witness ==
    /\ crawlPc = "returned" /\ req.mode = "batch"
    /\ Len(req.urls) = 3 /\ req.urls[1] = req.urls[3] /\ req.urls[1] # req.urls[2]
    /\ hist.good = {1, 3}
    /\ Len(req.output) = 2

\* C18: crawlRecursiveInternalLinks terminates for every link graph: it runs
\* crawlBatch for at most maxDepth depth levels, and it stops earlier exactly
\* when the frontier has no unvisited URL (it never runs crawlBatch on an empty
\* frontier, and it returns before maxDepth levels only on an empty one).
C18_Terminates ==
    /\ <>(crawlPc = "returned")
    /\ [](hist.levels <= req.maxDepth)
    /\ []((crawlPc = "launch" /\ req.mode = "recursive") => bat.urls # <<>>)
    /\ []((crawlPc = "returned" /\ req.mode = "recursive") =>
             (hist.levels = req.maxDepth \/ UrlsToCrawl(rec) = <<>>))

\* C18 witness: the call returned after maxDepth = 2 levels with unvisited
\* URLs left in the frontier, one of them a URL already fetched (it failed).
C18_Witness ==
    /\ crawlPc = "returned" /\ req.mode = "recursive"
    /\ req.maxDepth = 2 /\ hist.levels = 2
    /\ UrlsToCrawl(rec) # <<>>
    /\ \E i \in 1..Len(rec.currentUrls) : BagIn(rec.currentUrls[i], hist.fetched)

\* C19: during one crawlRecursiveInternalLinks call no URL (after fragment
\* stripping) is fetched from the render collaborator more than once.
C19_FetchedOnce ==
    req.mode = "recursive" =>
        \A u \in BagToSet(hist.fetched) :
            Copies(hist.fetched,
                   { v \in BagToSet(hist.fetched) :
                       v.site = u.site /\ v.path = u.path }) <= 1

\* C20: the list returned by crawlRecursiveInternalLinks contains no two
\* entries whose URLs are equal after stripping the fragment.
C20_NoDuplicateResults ==
    (crawlPc = "returned" /\ req.mode = "recursive") =>
        \A i, j \in 1..Len(req.output) :
            (req.output[i].url.site = req.output[j].url.site
               /\ req.output[i].url.path = req.output[j].url.path) => i = j

\* C20 witness: two seeds that differ only by their fragment, and a second
\* page reached by a link: two entries are returned.
C20_Witness ==
    /\ crawlPc = "returned" /\ req.mode = "recursive"
    /\ Len(req.urls) >= 2
    /\ req.urls[1] # req.urls[2]
    /\ normalizeUrl(req.urls[1]) = normalizeUrl(req.urls[2])
    /\ Len(req.output) = 2
    /\ hist.levels = 2

(***************************************************************************)
(* Properties of createEmbeddingsBatch.                                    *)
(***************************************************************************)
\* C21: for a non-empty list of texts the call returns one vector per text,
\* position i holding the provider's vector of texts[i] or, where the provider
\* gave none (unreachable, or fewer items than requested), the all-zero vector.
C21_OneVectorPerText ==
    (emb.pc = "returned" /\ emb.texts # <<>>) =>
        /\ Len(emb.out) = Len(emb.texts)
        /\ \A k \in 1..Len(emb.texts) : emb.out[k] \in {VectorOf(emb.texts[k]), ZeroVector}

RealCount(out) == Cardinality({ k \in 1..Len(out) : out[k] # ZeroVector })

\* C22: after a failed batch request there is one individual request per
\* text, in input order; the result has the length of the input, entry i is
\* the provider's vector of texts[i] when its request succeeded and the
\* 1024-entry zero vector otherwise, and the call returns.
C22_IndividualFallback ==
    emb.batchFailed =>
        /\ emb.pc \in {"each", "returned"}
        /\ emb.requests = <<emb.texts>> \o [k \in 1..emb.i |-> <<emb.texts[k]>>]
        /\ emb.pc = "returned" =>
              /\ emb.i = Len(emb.texts)
              /\ Len(emb.out) = Len(emb.texts)
              /\ \A k \in 1..Len(emb.texts) :
                    emb.out[k] = IF emb.answers[k] = "vector"
                                 THEN VectorOf(emb.texts[k])
                                 ELSE [dim |-> 1024, of |-> <<>>]
              /\ RealCount(emb.out)
                    = Len(emb.texts) - Cardinality({ k \in 1..Len(emb.texts) :
                                                       emb.answers[k] # "vector" })

\* C22 witness: 5 texts, the batch request failed, one text unreachable: 4
\* real vectors and 1 zero vector.
C22_Witness ==
    /\ emb.pc = "returned" /\ emb.batchFailed
    /\ Len(emb.texts) = 5
    /\ Cardinality({ k \in 1..5 : emb.answers[k] = "throws" }) = 1
    /\ Cardinality({ k \in 1..5 : emb.answers[k] = "vector" }) = 4
    /\ RealCount(emb.out) = 4
    /\ Cardinality({ k \in 1..5 : emb.out[k] = ZeroVector }) = 1

(***************************************************************************)
(* Properties of the batch loops of addDocumentsToSupabase and             *)
(* addCodeExamplesToSupabase.                                              *)
(***************************************************************************)
\* the offsets at which the batches of a call start
Offsets(call) == { i \in 0..(Len(call.docs) - 1) : i % BatchSize = 0 }

\* the batch at offset i was inserted record by record and none of its
\* records was stored
LostBatch(call, i) ==
    /\ i \in call.fellBack
    /\ \A k \in (i + 1)..Min2(i + BatchSize, Len(call.docs)) : k \notin call.stored

\* every batch of a call that ended was embedded and went into the retry loop
AllBatchesRun(call) == call.pc = "done" => call.embedded = Offsets(call)

\* C23: in addDocumentsToSupabase and addCodeExamplesToSupabase a failed batch
\* is not fatal: whatever the inserts answer, the call ends, every batch was
\* embedded and inserted (the retry loop of a batch is entered with its
\* embeddings), and the records whose insert succeeded are in the table.
C23_FailedBatchNotFatal ==
    /\ [](/\ AllBatchesRun(calls["c1"])
          /\ AllBatchesRun(codeCalls["c1"])
          /\ \A k \in calls["c1"].stored :
                BagIn(RowOf(calls["c1"].docs[k], calls["c1"].userId), crawled_pages)
          /\ \A k \in codeCalls["c1"].stored :
                BagIn(CodeRowOf(codeCalls["c1"].docs[k], codeCalls["c1"].userId),
                      code_examples))
    /\ <>(ingest["c1"].pc = "idle")

\* C23 witness: a call ended whose first batch failed in its three bulk inserts
\* and in every individual insert, and whose later batch was stored.
C23_Witness ==
    /\ calls["c1"].pc = "done"
    /\ LostBatch(calls["c1"], 0)
    /\ \E k \in calls["c1"].stored : k > BatchSize
    /\ crawled_pages # EmptyBag

\* C29: a batch's bulk insert is attempted at most 3 times, after waits of
\* 1000 ms and then 2000 ms, and not again once an attempt succeeded; the
\* records are inserted one by one only after the third attempt failed, each
\* record of the batch once, in order, whether or not the earlier ones failed.
C29_RetryThenEach ==
    LET call == calls["c1"]
        batch == BatchOf(call)
    IN /\ call.pc = "insert" =>
             /\ call.retry + 1 <= 3
             /\ call.waited = SubSeq(<<1000, 2000>>, 1, call.retry)
             /\ BatchPositions(call) \cap call.stored = {}
             /\ call.each = <<>>
       /\ call.pc = "insertEach" =>
             /\ call.retry = 2
             /\ call.waited = <<1000, 2000>>
             /\ call.j \in 1..Len(batch)
             /\ call.each = SubSeq(batch, 1, call.j - 1)
       /\ (call.pc = "done" /\ call.i \in call.fellBack) => call.each = batch
       /\ (call.pc = "done" /\ call.i \notin call.fellBack) => call.each = <<>>

\* C29 witness: the last batch, of two records or more, failed three times in
\* bulk; of its individual inserts the first failed and the second succeeded.
C29_Witness ==
    LET call == calls["c1"]
    IN /\ call.pc = "done"
       /\ call.i \in call.fellBack
       /\ call.waited = <<1000, 2000>>
       /\ Len(call.each) >= 2
       /\ call.i + 1 \notin call.stored
       /\ call.i + 2 \in call.stored

\* C30: after a bulk delete that failed, a delete was attempted once for each
\* distinct URL of the call, in order, whatever each of them answered; and
\* whatever the delete phase did, every batch goes through the insert phase.
C30_DeleteFallback ==
    LET call == calls["c1"]
    IN /\ (call.bulkDelete \in {"throws", "error"} /\ call.pc \in {"insert", "insertEach", "done"})
             => call.deleted = UniqueUrls(call.docs)
       /\ AllBatchesRun(call)

(***************************************************************************)
(* Properties of the link extraction.                                      *)
(***************************************************************************)
\* C25: every link of a crawl result is internal exactly when its URL has the
\* origin of the page, and no link to another host goes from the result to
\* the frontier of the recursive crawl.
C25_InternalIffSameOrigin ==
    (crawlPc = "returned" /\ lastCrawl.result.success) =>
        LET r == lastCrawl.result
        IN /\ \A i \in 1..Len(r.links) :
                 r.links[i].internal <=> (r.links[i].url.site = r.url.site)
           /\ \A i \in 1..Len(NewLinks(r, {})) : NewLinks(r, {})[i].site = r.url.site

(***************************************************************************)
(* Properties of smart_crawl_url.                                          *)
(***************************************************************************)
Dispatched == smart.pc \notin {"idle", "dispatch"}

\* C24 as stated: the target is a text file exactly when it ends in ".txt",
\* otherwise a sitemap exactly when it contains "sitemap" and ends in ".xml",
\* otherwise a web page; the strategy picked is the one of its kind.
C24_SuffixXml ==
    Dispatched =>
        smart.crawlType =
            (IF EndsWith(smart.url, ".txt") THEN "text_file"
             ELSE IF Includes(smart.url, "sitemap") /\ EndsWith(smart.url, ".xml")
                  THEN "sitemap"
                  ELSE "webpage")

\* C24, amended: the target is of exactly one kind.  It is a text file exactly
\* when it ends in ".txt"; otherwise a sitemap exactly when it contains
\* "sitemap" and either ends in ".xml" or contains "sitemap.xml"; otherwise a
\* web page; and the strategy run is the one of its kind.
C24_ExactlyOneKind ==
    Dispatched =>
        LET txt == EndsWith(smart.url, ".txt")
            map == /\ Includes(smart.url, "sitemap")
                   /\ \/ EndsWith(smart.url, ".xml")
                      \/ IncludesPair(smart.url, "sitemap", ".xml")
        IN /\ smart.crawlType \in {"text_file", "sitemap", "webpage"}
           /\ (smart.crawlType = "text_file") <=> txt
           /\ (smart.crawlType = "sitemap") <=> (~txt /\ map)
           /\ (smart.crawlType = "webpage") <=> (~txt /\ ~map)
           /\ smart.pc = smart.crawlType

\* a target with "sitemap.xml" before its end, and one that is both a text
\* file and a sitemap by its name
C24_Witness ==
    /\ Dispatched
    /\ \/ smart.url = <<"sitemap", ".xml", "x">> /\ smart.crawlType = "sitemap"
       \/ smart.url = <<"sitemap", ".xml", ".txt">> /\ smart.crawlType = "text_file"


\* C26: the pages of a sitemap are fetched by crawlBatch, each <loc> entry
\* once and nothing else, no level of the recursive crawl is run; and when
\* every one of the n fetches gave a page with content the answer is a success
\* of crawl type "sitemap" with pages_crawled = n.
C26_SitemapBatch ==
    /\ (smart.crawlType = "sitemap" /\ smart.pc = "crawling") =>
          /\ req.mode = "batch"
          /\ rec = IdleRec
          /\ hist.levels = 0
          /\ \A u \in BagToSet(hist.fetched) :
                CopiesIn(u, hist.fetched)
                   <= Cardinality({ i \in 1..Len(smart.locs) : smart.locs[i] = u })
          /\ crawlPc = "returned" =>
                \A i \in 1..Len(smart.locs) :
                   CopiesIn(smart.locs[i], hist.fetched)
                      = Cardinality({ k \in 1..Len(smart.locs) : smart.locs[k] = smart.locs[i] })
    /\ (smart.crawlType = "sitemap" /\ smart.pc = "answered"
           /\ smart.locs # <<>> /\ smart.dropped = 0) =>
          /\ smart.answer.success
          /\ smart.answer.crawl_type = "sitemap"
          /\ smart.answer.pages_crawled = Len(smart.locs)

\* a sitemap that lists one page twice, both fetches with content
C26_Witness ==
    /\ smart.crawlType = "sitemap"
    /\ smart.pc = "answered"
    /\ Len(smart.locs) = 2
    /\ smart.locs[1] = smart.locs[2]
    /\ smart.dropped = 0
    /\ smart.answer.pages_crawled = 2


\* the pages of the call that were fetched, those whose fetch failed
FetchedUrls ==
    { IngestUrl(smart.crawlResults[i].url) :
        i \in { k \in 1..Len(smart.crawlResults) : smart.crawlResults[k].success } }
FailedUrls == { IngestUrl(u) : u \in smart.failed } \ FetchedUrls

\* C27: whatever the kind of the target, a URL whose fetch failed halts its
\* own ingestion only: every sources row written is the row of the source of
\* a page that was fetched, no crawled_pages row is deleted or inserted for
\* the URL, and the pages that were fetched with content are handed to the
\* store.
C27_FailedFetchHaltsOnlyItself ==
    smart.pc \in {"ingesting", "answered"} =>
        /\ \A row \in BagToSet(sources) :
              \E u \in FetchedUrls : SourceIdOfUrl(u) = row.source_id
        /\ \A row \in BagToSet(crawled_pages) : row.url \notin FailedUrls
        /\ \A i \in 1..Len(calls["c1"].docs) : calls["c1"].docs[i].url \notin FailedUrls
        /\ calls["c1"].pc # "idle" =>
              { calls["c1"].docs[i].url : i \in 1..Len(calls["c1"].docs) }
                 = { IngestUrl(smart.crawlResults[i].url) :
                       i \in { k \in 1..Len(smart.crawlResults) :
                                 /\ smart.crawlResults[k].success
                                 /\ smart.crawlResults[k].markdown # <<>> } }


(***************************************************************************)
(* Properties of perform_rag_query.                                        *)
(***************************************************************************)
RagRowOf(id) == CHOOSE r \in rag.table : r.id = id

\* C28: in hybrid mode with an owner, the vector search and the keyword
\* search are given the same source and owner filters, and every result is a
\* row of that owner.
C28_SameFilters ==
    (pc \in {"searched", "done"} /\ useHybridSearch /\ Filtered(rag.userId)) =>
        /\ rag.given.vector = rag.given.keyword
        /\ \A i \in 1..Len(results) : RagRowOf(results[i].id).user_id = rag.userId


(***************************************************************************)
(* Properties of the embeddings of the code examples.                      *)
(***************************************************************************)
SinglesFor(j) == { k \in 1..Len(emb.singles) : emb.singles[k].j = j }

\* C31: in the batchData of a batch of code examples, a batch embedding that
\* is not all zero is stored unchanged and without another request; an
\* all-zero one leads to exactly one createEmbedding call, on the text of the
\* same item, whose result is stored for that item; so every record carries
\* its own text and an embedding of that text, or zeros.
C31_OwnEmbedding ==
    emb.pc = "batchData" =>
        /\ Len(emb.batchData) = Len(emb.out)
        /\ \A j \in 1..Len(emb.batchData) :
              LET row == emb.batchData[j]
              IN /\ row.content = emb.texts[j]
                 /\ row.embedding \in {VectorOf(emb.texts[j]), ZeroVector}
                 /\ emb.out[j] # ZeroVector =>
                       /\ row.embedding = emb.out[j]
                       /\ SinglesFor(j) = {}
                 /\ emb.out[j] = ZeroVector =>
                       /\ Cardinality(SinglesFor(j)) = 1
                       /\ \A k \in SinglesFor(j) :
                             /\ emb.singles[k].text = emb.texts[j]
                             /\ emb.singles[k].result = row.embedding

\* the second of two different items had a zero batch embedding and got its
\* own embedding from the second request
C31_Witness ==
    /\ emb.pc = "batchData"
    /\ Len(emb.batchData) >= 2
    /\ emb.texts[1] # emb.texts[2]
    /\ emb.out[2] = ZeroVector
    /\ emb.batchData[2].embedding = VectorOf(emb.texts[2])


(***************************************************************************)
(* Properties of the contextual step.                                      *)
(***************************************************************************)
\* what generateContextualEmbedding answered for position j
SituateAnswer(j) ==
    LET k == CHOOSE x \in 1..Len(ctx.situate) : ctx.situate[x].j = j
    IN ctx.situate[k].answer

\* C32: with the option on and a client, a record of the batch is marked
\* contextualEmbedding exactly when the call for its chunk answered with
\* success, and then its content is context, separator, chunk; when the call
\* failed the content is the chunk alone and the record is not marked.
C32_MarkedIffSituated ==
    (ctx.pc = "batchData" /\ ctx.useContextualEmbeddings /\ ctx.client) =>
        \A j \in 1..Len(ctx.batchContents) :
            LET row == ctx.batchData[j]
                a == SituateAnswer(j)
            IN /\ Len(ctx.batchData) = Len(ctx.batchContents)
               /\ row.metadata.contextualEmbedding <=> a.success
               /\ a.success =>
                     /\ Len(row.content) = 3
                     /\ row.content[2] = Separator
                     /\ row.content[3] = ctx.batchContents[j]
                     /\ row.content = a.text
               /\ ~a.success => row.content = <<ctx.batchContents[j]>>

\* a batch of two chunks, the call of the second failed after the call of the
\* first succeeded
C32_Witness ==
    /\ ctx.pc = "batchData"
    /\ Len(ctx.batchData) = 2
    /\ ctx.batchData[1].metadata.contextualEmbedding
    /\ ~ctx.batchData[2].metadata.contextualEmbedding
    /\ ctx.batchData[2].content = <<ctx.batchContents[2]>>


\* C33: on the same vector hits, keyword hits and match_count the merge of
\* search_code_examples and the merge of perform_rag_query give the same
\* sequence of ids with the same similarities.
C33_SameMerge ==
    (pc = "searched" /\ rag.combined) =>
        /\ Len(results) = Len(rag.results)
        /\ \A i \in 1..Len(results) :
              /\ results[i].id = rag.results[i].id
              /\ results[i].similarity = rag.results[i].similarity

\* both merges ran on hits that have a row in both lists, a vector-only row
\* and a keyword-only row
C33_Witness ==
    /\ pc = "searched"
    /\ rag.combined
    /\ Len(rag.results) = 3
    /\ rag.results[1].similarity = Boost(SimOf(rag.results[1].id))
    /\ rag.results[2].similarity = SimOf(rag.results[2].id)
    /\ rag.results[3].similarity = KeywordSim
    /\ rag.results[3].id # 0


(***************************************************************************)
(* Properties of the owner scope.                                          *)
(***************************************************************************)
\* the rows of the table that are not of this owner are in `after` as in `before`
OthersKept(before, after, owner) ==
    \A r \in BagToSet(before) \cup BagToSet(after) :
        r.user_id # owner => CopiesIn(r, after) = CopiesIn(r, before)

\* C34: no step of a tool call made with an owner changes a row of another
\* owner in crawled_pages or in code_examples, for the URLs of the call or any
\* other.
C34_OtherOwnersKept ==
    [][ingest["c1"].userId # NoUser =>
          /\ OthersKept(crawled_pages, crawled_pages', ingest["c1"].userId)
          /\ OthersKept(code_examples, code_examples', ingest["c1"].userId)]_vars

\* the call of alice deleted her rows for its URL in both tables and stored
\* new ones
C34_Witness ==
    /\ ingest["c1"].userId = "alice"
    /\ ingest["c1"].pc = "answer"
    /\ \A r \in PriorRows :
          (r.url = "u1" /\ r.user_id = "alice") =>
             ~BagIn(r, crawled_pages) /\ ~BagIn(r, code_examples)
    /\ \E r \in BagToSet(crawled_pages) : r.content[1] = "A"
    /\ \E r \in BagToSet(code_examples) : r.content[1] = "A"


(***************************************************************************)
(* What a reader sees while a replacement runs.                            *)
(***************************************************************************)
Replacing(call) == call.pc \in {"insert", "insertEach", "done"} /\ ~call.deleteFailed

\* C35 as stated: once the delete phase of a call succeeded, every row stored
\* for a URL of the call is one of the call's new rows.
C35_RowsOfUrl ==
    \A c \in Callers :
        Replacing(calls[c]) =>
            { r \in BagToSet(crawled_pages) : r.url \in SeqToSet(UniqueUrls(calls[c].docs)) }
               \subseteq RowsOfCall(calls[c])

\* C35, amended: once the delete phase of a call succeeded, every row stored
\* for a URL of the call and of the call's owner (of any owner when the call
\* has none) is one of the call's new rows, in every state up to the call's
\* end.
C35_RowsInScope ==
    \A c \in Callers :
        Replacing(calls[c]) =>
            { r \in BagToSet(crawled_pages) : InScope(calls[c], r) }
               \subseteq RowsOfCall(calls[c])

\* between two batches of a replacement: the rows of the earlier ingestion are
\* gone and the first new rows are in, the others not yet
C35_Witness ==
    \E c \in Callers :
        /\ calls[c].pc = "insert"
        /\ ~calls[c].deleteFailed
        /\ calls[c].i = BatchSize
        /\ calls[c].prior # {}
        /\ \E r \in RowsOfCall(calls[c]) : BagIn(r, crawled_pages)
        /\ \E r \in RowsOfCall(calls[c]) : ~BagIn(r, crawled_pages)


(***************************************************************************)
(* What the recursive crawl reaches.                                       *)
(***************************************************************************)
Seeds == { normalizeUrl(req.urls[i]) : i \in 1..Len(req.urls) }

SeedSites == { u.site : u \in Seeds }

\* C36: every URL returned by crawlRecursiveInternalLinks is a normalized seed
\* or, from the second depth level on, a normalized URL of a seed's site taken
\* from a page of the level before; no URL is fetched beyond maxDepth levels
\* (with maxDepth = 1 only the seeds), and no URL of another host is fetched.
C36_SeedsAndInternalLinks ==
    req.mode = "recursive" =>
        /\ \A i \in 1..Len(rec.resultsAll) :
              LET u == rec.resultsAll[i].url
              IN \/ u \in Seeds
                 \/ /\ u = normalizeUrl(u)
                    /\ u.site \in SeedSites
                    /\ hist.levels >= 2
        /\ hist.levels <= req.maxDepth
        /\ req.maxDepth = 1 => BagToSet(hist.fetched) \subseteq Seeds
        /\ \A u \in BagToSet(hist.fetched) : u.site \in SeedSites


(***************************************************************************)
(* Records and inserts of one addDocumentsToSupabase call.                 *)
(***************************************************************************)
\* the records at a run of positions, in order
DocsAt(call, K) ==
    IF K = {} THEN <<>>
    ELSE LET lo == CHOOSE x \in K : \A y \in K : x <= y
             hi == CHOOSE x \in K : \A y \in K : y <= x
         IN SubSeq(call.docs, lo, hi)

\* C37: within one addDocumentsToSupabase call no record is inserted more than
\* once: a step that adds rows to crawled_pages adds exactly the rows of
\* records not stored before; while a batch is in its bulk attempts none of
\* its records is stored, and while it is inserted record by record only
\* records before the current one may be.
C37_InsertedOnce ==
    /\ [][LET old == calls["c1"]
              added == calls'["c1"].stored \ old.stored
          IN (crawled_pages' # crawled_pages /\ old.pc \in {"insert", "insertEach"}) =>
                /\ added # {}
                /\ added \subseteq BatchPositions(old)
                /\ crawled_pages' = InsertRows(crawled_pages, DocsAt(old, added),
                                               old.userId)]_vars
    /\ [](LET call == calls["c1"]
          IN /\ call.pc = "insert" => BatchPositions(call) \cap call.stored = {}
             /\ call.pc = "insertEach" =>
                   /\ call.i \in call.fellBack
                   /\ BatchPositions(call) \cap call.stored
                         \subseteq (call.i + 1)..(call.i + call.j - 1))

\* C37 witness: a call of two batches ended with every record stored, the
\* first batch record by record after its bulk attempts failed, the second
\* by a bulk insert.
C37_Witness ==
    LET call == calls["c1"]
    IN /\ call.pc = "done"
       /\ Len(call.docs) > BatchSize
       /\ call.fellBack = {0}
       /\ call.stored = 1..Len(call.docs)


(***************************************************************************)
(* The counts of the success envelope of smart_crawl_url.                  *)
(***************************************************************************)
\* C38: when smart_crawl_url answers with success, chunks_stored is the number
\* of chunks of all crawled pages (the records given to addDocumentsToSupabase)
\* and code_examples_stored the number of code blocks extracted from them (the
\* records given to addCodeExamplesToSupabase; none when the extraction is
\* off), whatever the inserts answered.
C38_CountsProduced ==
    [][\A c \in {"c1"} :
          (ingest[c].pc = "answer" /\ ingest[c].tool = "smart_crawl_url"
             /\ ingest'[c].answer # <<>>) =>
              LET t == ingest[c]
                  answer == ingest'[c].answer[1]
              IN /\ answer.success
                 /\ answer.chunks_stored = Len(DocsOf(t.pages, t.version))
                 /\ answer.code_examples_stored =
                       IF t.agentic THEN Len(CodeDocsOf(t.pages, t.version)) ELSE 0]_vars

\* C38 witness: a success answer that counts chunks and code examples while
\* code_examples is empty: every insert of the code examples failed.
C38_Witness ==
    /\ ingest["c1"].answer # <<>>
    /\ ingest["c1"].answer[1].chunks_stored > BatchSize
    /\ ingest["c1"].answer[1].code_examples_stored > BatchSize
    /\ code_examples = EmptyBag


(***************************************************************************)
(* Failure envelopes of the two ingestion tools.                           *)
(***************************************************************************)
FailureAnswered ==
    \/ smart.pc = "answered" /\ ~smart.answer.success
    \/ ingest["c1"].answer # <<>> /\ ~ingest["c1"].answer[1].success

\* C39: when smart_crawl_url or crawl_single_page answers with a failure
\* envelope (a sitemap without URLs, no crawl result; a failed fetch, no
\* chunk), no request to the store was made: no source upsert, no call of
\* addDocumentsToSupabase or addCodeExamplesToSupabase, and sources,
\* crawled_pages and code_examples are what they were before the call.
C39_FailureBeforeStore ==
    FailureAnswered =>
        /\ started = MaxCalls - 1
        /\ ingest["c1"].upserts = 0
        /\ calls["c1"] = IdleCall
        /\ codeCalls["c1"] = IdleCall
        /\ sources = SiteSources
        /\ crawled_pages = SitePages
        /\ code_examples = EmptyBag

\* C39 witness: crawl_single_page fetched a page without text and answered
\* that no chunk was generated.
C39_Witness ==
    /\ ingest["c1"].answer = <<FailureEnvelope("No chunks generated from content")>>
    /\ lastCrawl.result.success
    /\ crawled_pages = SitePages


=============================================================================
